---------------------------- MODULE Spec2Model ----------------------------
(***************************************************************************)
(* A model of the gang workflow engine of src/src/workflows/gangEngine.js: *)
(* GangMemory, GangObserver, parseMemberJsonOutput, MemberRunner.run and    *)
(* GangEngine (validateConfig, load, runGraph, runOnce).                    *)
(*                                                                         *)
(* The engine runs on one JavaScript thread.  An action of the model is    *)
(* one synchronous stretch of code between two suspensions on an external  *)
(* capability (the LLM): the code from the call of runOnce up to the loop, *)
(* the code that opens a node visit and issues its member call(s), the     *)
(* continuation of a member turn when its LLM call settles, the code that  *)
(* joins a visit and resolves the edge, and the code that returns.         *)
(***************************************************************************)
EXTENDS Naturals, Sequences, FiniteSets, TLC

VARIABLES
  cfg,            \* the WorkflowConfig the engine was constructed with
  env,            \* the LLM capability: what it may answer, how often it answers
  members,        \* GangEngine.members   (Map name -> MemberRunner)
  squads,         \* GangEngine.squads    (Map name -> squad definition)
  observer,       \* GangEngine.observer  (null until load)
  events,         \* GangObserver.events
  memory,         \* GangMemory.buckets   (Map memoryId -> messages)
  pc,             \* where the current runGraph call stands
  runId,          \* runGraph's runId
  input,          \* runGraph's input
  ctx,            \* runGraph's ctx object
  nodeResults,    \* runGraph's nodeResults array
  current,        \* runGraph's `current`
  safetyCounter,  \* runGraph's `safetyCounter`
  turns,          \* the member.run calls of the latest node visit
  orphans,        \* member.run calls still pending after their run was rejected
  outcome,        \* what the last runGraph call gave its caller
  nCalls,         \* LLM calls issued so far (names the text of each answer)
  runs,           \* runOnce and runTests calls made so far
  reports,        \* per write of the Markdown report: how many events it rendered
  probe,          \* input and result of a pure function applied on its own
  loadError,      \* what the last direct load() call gave its caller
  suite,          \* the last runTests call: where it stands, its results array
                  \* and the test reports written
  twin            \* a second engine run side by side with this one, when there is one

vars == << cfg, env, members, squads, observer, events, memory, pc, runId,
           input, ctx, nodeResults, current, safetyCounter, turns, orphans,
           outcome, nCalls, runs, reports, probe, loadError, suite, twin >>

runVars == << runId, input, ctx, nodeResults, current, safetyCounter >>

-----------------------------------------------------------------------------
(* Bounds of the model.                                                    *)

\* LLM calls the capability answers in one engine's life (specification Spec).
MaxCalls == 4

\* runOnce calls made on one engine.
MaxRuns == 2

\* Steps of a generated step list (specification EdgeSpec).
MaxSteps == 2

\* The model follows one run for at most this many visits.  The loop's own cap
\* (SafetyCap) is lower, so this guard never binds on the code as it is.
TraceBound == 52

(* Program constants.                                                      *)

\* while (current && safetyCounter < 50)
SafetyCap == 50

-----------------------------------------------------------------------------
(* Values.                                                                 *)

\* JavaScript null / undefined.
Null == "<null>"

\* `if (x)` on a string or null.
Truthy(x) == x # Null /\ x # ""

\* a || b on strings or null.
OrElse(a, b) == IF Truthy(a) THEN a ELSE b

\* a ?? b on strings or null.
Coalesce(a, b) == IF a # Null THEN a ELSE b

\* The texts the LLM answers with: the k-th call's content and raw text.
ContentTokens == << "t1", "t2", "t3", "t4", "t5", "t6", "t7", "t8" >>
RawTokens == << "r1", "r2", "r3", "r4", "r5", "r6", "r7", "r8" >>

ContentOf(k) == ContentTokens[((k - 1) % Len(ContentTokens)) + 1]
RawOf(k) == RawTokens[((k - 1) % Len(RawTokens)) + 1]

\* The inputs a caller gives runOnce.
Inputs == { "in" }

Range(seq) == { seq[i] : i \in 1..Len(seq) }

-----------------------------------------------------------------------------
(* GangMemory.                                                             *)

\* GangMemory.get
MemoryGet(buckets, memoryId) ==
  IF ~Truthy(memoryId) THEN << >>
  ELSE IF memoryId \in DOMAIN buckets THEN buckets[memoryId]
  ELSE << >>

\* The bucket is set to the new messages instead of being extended by them.
MemoryAppendReplace(buckets, memoryId, messages) ==
  IF ~Truthy(memoryId) THEN buckets
  ELSE (memoryId :> messages) @@ buckets

\* GangMemory.append
MemoryAppend(buckets, memoryId, messages) ==
  IF ~Truthy(memoryId) THEN buckets
  ELSE (memoryId :> (MemoryGet(buckets, memoryId) \o messages)) @@ buckets

Message(role, content) == [role |-> role, content |-> content]

-----------------------------------------------------------------------------
(* GangObserver.                                                           *)

NoObserver == [exists |-> FALSE, enabled |-> FALSE, markdown |-> FALSE]

\* new GangObserver(config.observability || {})
NewObserver(c) ==
  [exists |-> TRUE, enabled |-> c.observability.enabled,
   markdown |-> c.observability.markdown]

\* An event of the list.  stray is no field of the event: it tells the events
\* recorded by a call whose run had been rejected before from those recorded
\* by a run under way.
Event(type, rid, nodeName, memberName, phase, text, rawOutput) ==
  [type |-> type, runId |-> rid, nodeName |-> nodeName,
   memberName |-> memberName, phase |-> phase, input |-> text,
   rawOutput |-> rawOutput, toolName |-> Null, result |-> Null,
   stray |-> FALSE]

Stray(ev) == [ev EXCEPT !.stray = TRUE]

\* The enabled flag is not looked at: every recording call records.
RecordAlways(obs, evs, ev) == IF obs.exists THEN Append(evs, ev) ELSE evs

\* this.observer?.onX?.(payload): nothing without an observer, nothing when
\* the observer is disabled, else events.push
Record(obs, evs, ev) ==
  IF obs.exists /\ obs.enabled THEN Append(evs, ev) ELSE evs

\* GangObserver.flushMarkdownIfNeeded: whether the report file is written
Flushes(obs) == obs.exists /\ obs.enabled /\ obs.markdown

-----------------------------------------------------------------------------
(* parseMemberJsonOutput.                                                  *)

\* A text the LLM answers.  json: JSON.parse gives a value that is truthy and
\* of typeof "object", which a JSON object is and a JSON array too; content,
\* next: that value's fields (Null when absent or null, as they are on an
\* array); text: the text itself.
RawReply(shape, k) ==
  [json |-> shape.kind \in { "json", "array" },
   content |-> IF shape.kind = "json" /\ shape.hasContent
               THEN ContentOf(k) ELSE Null,
   next |-> IF shape.kind = "json" THEN shape.next ELSE Null,
   actions |-> IF shape.kind = "json" THEN << "act" >> ELSE << >>,
   text |-> RawOf(k)]

NoOutput ==
  [content |-> Null, next |-> Null, actions |-> << >>, raw |-> Null,
   parsed |-> FALSE]

parseMemberJsonOutput(raw) ==
  IF raw.json
  THEN [content |-> Coalesce(raw.content, ""),
        next |-> Coalesce(raw.next, Null),
        actions |-> raw.actions,
        raw |-> raw.text,
        parsed |-> TRUE]
  ELSE [content |-> raw.text, next |-> Null, actions |-> << >>,
        raw |-> raw.text, parsed |-> FALSE]

-----------------------------------------------------------------------------
(* Edge resolution (runGraph, after a node's result is recorded).          *)

Step(from, to, when) == [from |-> from, to |-> to, when |-> when]

\* (s) => s.from === nodeName && (s.to === hint || s.when === hint)
HintMatch(s, nodeName, hint) ==
  s.from = nodeName /\ (s.to = hint \/ s.when = hint)

\* (s) => s.from === nodeName && s.when === "always"
AlwaysMatch(s, nodeName) == s.from = nodeName /\ s.when = "always"

\* steps.find(HintMatch): the index of the first such step, 0 when none
RECURSIVE FindHintStep(_, _, _, _)
FindHintStep(steps, i, nodeName, hint) ==
  IF i > Len(steps) THEN 0
  ELSE IF HintMatch(steps[i], nodeName, hint) THEN i
  ELSE FindHintStep(steps, i + 1, nodeName, hint)

\* steps.find(AlwaysMatch): the index of the first such step, 0 when none
RECURSIVE FindAlwaysStep(_, _, _)
FindAlwaysStep(steps, i, nodeName) ==
  IF i > Len(steps) THEN 0
  ELSE IF AlwaysMatch(steps[i], nodeName) THEN i
  ELSE FindAlwaysStep(steps, i + 1, nodeName)

\* match ? match.to : null
StepTo(steps, i) == IF i = 0 THEN Null ELSE steps[i].to

\* The two finds the other way round: an `always` step wins over a hint step.
MatchStepAlwaysFirst(steps, nodeName, hint) ==
  IF FindAlwaysStep(steps, 1, nodeName) # 0
  THEN FindAlwaysStep(steps, 1, nodeName)
  ELSE FindHintStep(steps, 1, nodeName, hint)

\* const match = steps.find(hint) || steps.find(always)
MatchStep(steps, nodeName, hint) ==
  IF FindHintStep(steps, 1, nodeName, hint) # 0
  THEN FindHintStep(steps, 1, nodeName, hint)
  ELSE FindAlwaysStep(steps, 1, nodeName)

\* With steps declared and no step matched, the hint itself is taken as the
\* next node (as it is when no steps are declared).
ResolveNextHintFallback(steps, nodeName, structuredNext) ==
  IF Len(steps) = 0 THEN OrElse(structuredNext, Null)
  ELSE IF Truthy(structuredNext)
       THEN IF MatchStep(steps, nodeName, structuredNext) # 0
            THEN StepTo(steps, MatchStep(steps, nodeName, structuredNext))
            ELSE structuredNext
       ELSE StepTo(steps, FindAlwaysStep(steps, 1, nodeName))

\* Without steps there is no edge: the hint is not followed.
ResolveNextStepsOnly(steps, nodeName, structuredNext) ==
  IF Len(steps) = 0 THEN Null
  ELSE IF Truthy(structuredNext)
       THEN StepTo(steps, MatchStep(steps, nodeName, structuredNext))
       ELSE StepTo(steps, FindAlwaysStep(steps, 1, nodeName))

\* A next node that is neither a loaded member nor a loaded squad is dropped:
\* the run ends there.
ResolveNextKnownOnly(steps, nodeName, structuredNext) ==
  LET nextNode ==
        IF Len(steps) = 0 THEN OrElse(structuredNext, Null)
        ELSE IF Truthy(structuredNext)
             THEN StepTo(steps, MatchStep(steps, nodeName, structuredNext))
             ELSE StepTo(steps, FindAlwaysStep(steps, 1, nodeName))
  IN  IF nextNode \in DOMAIN members \cup DOMAIN squads THEN nextNode ELSE Null

\* A hint that names a loaded member or squad is taken as the next node
\* whether or not a step leads there.
ResolveNextHintWins(steps, nodeName, structuredNext) ==
  IF Len(steps) = 0 THEN OrElse(structuredNext, Null)
  ELSE IF structuredNext \in DOMAIN members \cup DOMAIN squads
       THEN structuredNext
  ELSE IF Truthy(structuredNext)
       THEN StepTo(steps, MatchStep(steps, nodeName, structuredNext))
       ELSE StepTo(steps, FindAlwaysStep(steps, 1, nodeName))

\* nextNode as runGraph computes it from workflow.steps and result.next
ResolveNext(steps, nodeName, structuredNext) ==
  IF Len(steps) = 0 THEN OrElse(structuredNext, Null)
  ELSE IF Truthy(structuredNext)
       THEN StepTo(steps, MatchStep(steps, nodeName, structuredNext))
       ELSE StepTo(steps, FindAlwaysStep(steps, 1, nodeName))

-----------------------------------------------------------------------------
(* GangEngine.validateConfig and GangEngine.load.                          *)

\* new ToolRegistry: the built-in tools (MCP_SERVER_URL unset)
BuiltinTools == { "web_search", "scrape_url", "list_directory", "read_file" }

RequiredFields == << "version", "llm", "members", "workflow" >>

RECURSIVE FirstMissing(_, _)
FirstMissing(c, i) ==
  IF i > Len(RequiredFields) THEN Null
  ELSE IF RequiredFields[i] \in c.missing THEN RequiredFields[i]
  ELSE FirstMissing(c, i + 1)

Ok == "ok"
ErrMissingField == "Missing required gang config field"
ErrNoMembers == "Gang must have at least one member"
ErrEntry == "Workflow entry is not a defined member"
ErrUnknownTool == "Unknown tool"
ErrEntryRequired == "workflow.entry is required in gang configuration"
ErrUnknownSquadMember == "Unknown member in squad"
ErrUnknownNode == "Unknown node (neither member nor squad)"
ErrCapability == "capability failure"

\* validateConfig: Ok, or the message of the Error it throws
validateConfig(c) ==
  IF FirstMissing(c, 1) # Null THEN ErrMissingField
  ELSE IF Len(c.members) = 0 THEN ErrNoMembers
  ELSE IF ~(\E i \in 1..Len(c.members) : c.members[i].name = c.workflow.entry)
       THEN ErrEntry
  ELSE Ok

\* for (const tName of m.tools) toolsMap.set(tName, this.toolRegistry.get(tName))
ToolsKnown(m) == \A i \in 1..Len(m.tools) : m.tools[i] \in BuiltinTools

\* load's member loop from member i on: the runners map it leaves, and Ok or
\* the message of the Error that stopped it
RECURSIVE BuildMembers(_, _, _)
BuildMembers(defs, i, built) ==
  IF i > Len(defs) THEN [members |-> built, error |-> Ok]
  ELSE IF ~ToolsKnown(defs[i]) THEN [members |-> built, error |-> ErrUnknownTool]
  ELSE BuildMembers(defs, i + 1, (defs[i].name :> defs[i]) @@ built)

\* load's squad loop: this.squads.set(s.name, s)
RECURSIVE BuildSquads(_, _, _)
BuildSquads(defs, i, built) ==
  IF i > Len(defs) THEN built
  ELSE BuildSquads(defs, i + 1, (defs[i].name :> defs[i]) @@ built)

NoMap == << >>

\* The observer is built first and the configuration validated after.
LoadObserverFirst(c, mem, sq, obs, evs) ==
  IF validateConfig(c) # Ok
  THEN [members |-> mem, squads |-> sq, observer |-> NewObserver(c),
        events |-> << >>, error |-> validateConfig(c)]
  ELSE LET b == BuildMembers(c.members, 1, mem)
       IN  [members |-> b.members,
            squads |-> IF b.error = Ok THEN BuildSquads(c.squads, 1, sq) ELSE sq,
            observer |-> NewObserver(c),
            events |-> << >>,
            error |-> b.error]

\* GangEngine.load on an engine holding (mem, sq, obs, evs): what it holds
\* afterwards, and Ok or the message of the Error load threw
Load(c, mem, sq, obs, evs) ==
  IF validateConfig(c) # Ok
  THEN [members |-> mem, squads |-> sq, observer |-> obs, events |-> evs,
        error |-> validateConfig(c)]
  ELSE LET b == BuildMembers(c.members, 1, mem)
       IN  [members |-> b.members,
            squads |-> IF b.error = Ok THEN BuildSquads(c.squads, 1, sq) ELSE sq,
            observer |-> NewObserver(c),
            events |-> << >>,
            error |-> b.error]

-----------------------------------------------------------------------------
(* Node results, context entries and what runGraph gives its caller.       *)

NoResult ==
  [type |-> Null, nodeName |-> Null, mode |-> Null, outputs |-> << >>,
   output |-> NoOutput, next |-> Null]

\* { type: "member", nodeName, output: out, next: out.next }
MemberResult(nodeName, out) ==
  [type |-> "member", nodeName |-> nodeName, mode |-> Null,
   outputs |-> << >>, output |-> out, next |-> out.next]

\* { type: "squad", nodeName, mode, outputs, next }
SquadResult(nodeName, mode, outputs, next) ==
  [type |-> "squad", nodeName |-> nodeName, mode |-> mode,
   outputs |-> outputs, output |-> NoOutput, next |-> next]

\* { member: name, ...out }
SquadOutput(name, out) ==
  [member |-> name, content |-> out.content, next |-> out.next,
   actions |-> out.actions, raw |-> out.raw, parsed |-> out.parsed]

\* ctx[nodeName] = out (member node) or the outputs array (squad node)
CtxEntry(result) == [output |-> result.output, outputs |-> result.outputs]

NoOutcome ==
  [kind |-> "none", error |-> Ok, runId |-> Null, input |-> Null,
   nodes |-> << >>, final |-> NoResult]

Thrown(err) ==
  [kind |-> "failed", error |-> err, runId |-> Null, input |-> Null,
   nodes |-> << >>, final |-> NoResult]

\* return { runId, workflow, input, nodes: nodeResults, final: finalResult }
RunRecord(rid, inp, nodes, final) ==
  [kind |-> "returned", error |-> Ok, runId |-> rid, input |-> inp,
   nodes |-> nodes, final |-> final]

-----------------------------------------------------------------------------
(* MemberRunner.run.                                                       *)

HasTools(def) == Len(def.tools) > 0

\* The conversation is built without the history of the bucket.
BeginTurnNoHistory(def, text, cx, buckets, k) ==
  [member |-> def.name, memoryId |-> def.memoryId, hasTools |-> HasTools(def),
   input |-> text, ctxSeen |-> cx,
   memSeen |-> << >>,
   status |-> "pending", out |-> NoOutput, callNo |-> k, rank |-> 0,
   stale |-> FALSE, answer |-> Null,
   tools |-> def.tools, tool |-> Null, toolCalls |-> 0, seen |-> << >>]

\* run up to its first suspension on the LLM: memHistory is read, the
\* conversation is built from the input and the context as they are now, the
\* "before" event is recorded and the k-th LLM call is issued
BeginTurn(def, text, cx, buckets, k) ==
  [member |-> def.name, memoryId |-> def.memoryId, hasTools |-> HasTools(def),
   input |-> text, ctxSeen |-> cx,
   memSeen |-> MemoryGet(buckets, def.memoryId),
   status |-> "pending", out |-> NoOutput, callNo |-> k, rank |-> 0,
   stale |-> FALSE, answer |-> Null,
   tools |-> def.tools, tool |-> Null, toolCalls |-> 0, seen |-> << >>]

\* onMemberMessage({ phase: "before", memberName, input }): the tool path
\* passes the input with the serialized context, the other path the input
BeforeEvent(def, text) ==
  Event("member_message", Null, Null, def.name,
        IF HasTools(def) THEN "before+context" ELSE "before", text, Null)

\* onMemberMessage({ phase: "after", memberName, input, rawOutput, structured })
AfterEvent(t, out) ==
  Event("member_message", Null, Null, t.member, "after", t.input, out.raw)

\* Only the assistant's message is appended.
TurnAppendAnswerOnly(buckets, t, out) ==
  MemoryAppend(buckets, t.memoryId, << Message("assistant", out.content) >>)

\* this.memory.append(memoryId, [{user, input}, {assistant, parsed.content}])
TurnAppend(buckets, t, out) ==
  MemoryAppend(buckets, t.memoryId,
               << Message("user", t.input), Message("assistant", out.content) >>)

\* What the agent loop of a member with tools passes a tool, and what each
\* built-in tool returns.
ToolQuery == "query"

ToolOutput(name) ==
  CASE name = "web_search" -> "hits"
    [] name = "scrape_url" -> "page"
    [] name = "list_directory" -> "names"
    [] OTHER -> "text"

\* onToolCall({ memberName, toolName: tool.name, input })
ToolCallEvent(t, name) ==
  [Event("tool_call", Null, Null, t.member, Null, ToolQuery, Null)
     EXCEPT !.toolName = name]

\* onToolResult({ memberName, toolName: tool.name, input, result })
ToolResultEvent(t, name, result) ==
  [Event("tool_result", Null, Null, t.member, Null, ToolQuery, Null)
     EXCEPT !.toolName = name, !.result = result]

\* The wrapper reports the call as finished also when the tool has failed.
WrappedFailureReported(obs, evs, ev) ==
  IF obs.exists /\ obs.enabled THEN Append(evs, ev) ELSE evs

\* wrapped.invoke has no try around await tool.invoke(input, config): when
\* the tool throws, onToolResult is not reached
WrappedFailure(obs, evs, ev) == evs

\* The shapes of answer the LLM may give: JSON text with a content and a
\* `next`, JSON text without content, the text of a JSON array, text that is
\* no JSON (or a JSON number, string, boolean or null), or a failure.
JsonShape(h) == [kind |-> "json", hasContent |-> TRUE, next |-> h]
EmptyShape == [kind |-> "json", hasContent |-> FALSE, next |-> Null]
ArrayShape == [kind |-> "array", hasContent |-> FALSE, next |-> Null]
TextShape == [kind |-> "text", hasContent |-> TRUE, next |-> Null]
FailShape == [kind |-> "fail", hasContent |-> FALSE, next |-> Null]

-----------------------------------------------------------------------------
(* GangEngine.evaluateTestAssertions and GangEngine.writeTestReports.      *)

\* actualSnippet: txt.slice(0, 200)
SnippetLength == 200

ErrNoTests == "No tests array defined in gang configuration"
ErrUnknownAssertion == "Unknown assertion type"

\* A test of config.tests and an assertion of its asserts; Null stands for a
\* field that is absent.
Test(name, text, asserts) == [name |-> name, input |-> text, asserts |-> asserts]

Assertion(type, target, value) ==
  [type |-> type, target |-> target, value |-> value]

\* The characters of the texts the model distinguishes.  The first three
\* contents the LLM gives are "an edge", "an Edge" and "edge", its first raw
\* text is '{edge}'; every other text is one character of its own.
Chars(text) ==
  CASE text = "" -> << >>
    [] text = "t1" -> << "a", "n", " ", "e", "d", "g", "e" >>
    [] text = "t2" -> << "a", "n", " ", "E", "d", "g", "e" >>
    [] text = "t3" -> << "e", "d", "g", "e" >>
    [] text = "r1" -> << "{", "e", "d", "g", "e", "}" >>
    [] text = "edge" -> << "e", "d", "g", "e" >>
    [] text = "Edge" -> << "E", "d", "g", "e" >>
    [] text = "n e" -> << "n", " ", "e" >>
    [] OTHER -> << text >>

\* The texts compared for equality instead of searched.
IncludesWhole(txt, value) == txt = value

\* txt.includes(value)
Includes(txt, value) ==
  \E k \in 0..(Len(Chars(txt)) - Len(Chars(value))) :
    SubSeq(Chars(txt), k + 1, k + Len(Chars(value))) = Chars(value)

\* txt.slice(0, 200)
Snippet(txt) ==
  SubSeq(Chars(txt), 1,
         IF Len(Chars(txt)) < SnippetLength THEN Len(Chars(txt))
         ELSE SnippetLength)

\* String(o.content ?? o.raw ?? "")
OutputText(o) == Coalesce(o.content, Coalesce(o.raw, ""))

\* for (const o of node.outputs || []) memberOutputs[o.member] = ...
RECURSIVE SquadTexts(_, _, _)
SquadTexts(outputs, i, map) ==
  IF i > Len(outputs) THEN map
  ELSE SquadTexts(outputs, i + 1,
                  (outputs[i].member :> OutputText(outputs[i])) @@ map)

\* The text a member has in the mapping is never overwritten: its first
\* execution counts.
RECURSIVE MemberOutputsFirstWins(_, _, _)
MemberOutputsFirstWins(nodes, i, map) ==
  IF i > Len(nodes) THEN map
  ELSE IF nodes[i].type = "squad"
  THEN MemberOutputsFirstWins(nodes, i + 1,
                              map @@ SquadTexts(nodes[i].outputs, 1, NoMap))
  ELSE IF nodes[i].type = "member"
  THEN MemberOutputsFirstWins(nodes, i + 1,
                              map @@ (nodes[i].nodeName :>
                                        OutputText(nodes[i].output)))
  ELSE MemberOutputsFirstWins(nodes, i + 1, map)

\* for (const node of run.nodes): memberOutputs from node i on
RECURSIVE MemberOutputs(_, _, _)
MemberOutputs(nodes, i, map) ==
  IF i > Len(nodes) THEN map
  ELSE IF nodes[i].type = "squad"
  THEN MemberOutputs(nodes, i + 1, SquadTexts(nodes[i].outputs, 1, map))
  ELSE IF nodes[i].type = "member"
  THEN MemberOutputs(nodes, i + 1,
                     (nodes[i].nodeName :> OutputText(nodes[i].output)) @@ map)
  ELSE MemberOutputs(nodes, i + 1, map)

\* memberOutputs[targetName] || ""
TargetText(map, target) ==
  IF target \in DOMAIN map THEN OrElse(map[target], "") ELSE ""

\* what evaluateTestAssertions pushes for assertion a
Evaluated(a, map) ==
  IF a.type = "contains"
  THEN [type |-> a.type, target |-> a.target, value |-> a.value,
        passed |-> Includes(TargetText(map, a.target), OrElse(a.value, "")),
        actualSnippet |-> Snippet(TargetText(map, a.target)),
        error |-> Null]
  ELSE [type |-> a.type, target |-> a.target, value |-> a.value,
        passed |-> FALSE, actualSnippet |-> Null,
        error |-> ErrUnknownAssertion]

\* test.asserts || []: a test without asserts is given as one with none
AssertsOf(test) == test.asserts

\* Assertions of an unknown kind are passed over instead of recorded.
evaluateKnownOnly(test, run) ==
  LET known == SelectSeq(AssertsOf(test), LAMBDA a : a.type = "contains")
  IN  [ k \in 1..Len(known) |->
          Evaluated(known[k], MemberOutputs(run.nodes, 1, NoMap)) ]

\* evaluateTestAssertions(test, run)
evaluateTestAssertions(test, run) ==
  [ k \in 1..Len(AssertsOf(test)) |->
      Evaluated(AssertsOf(test)[k], MemberOutputs(run.nodes, 1, NoMap)) ]

\* t.name || `test_${results.length + 1}`
TestOrdinals == << "test_1", "test_2", "test_3" >>
TestRunId(t, done) == OrElse(t.name, TestOrdinals[done + 1])

\* t.input || ""
TestInput(t) == OrElse(t.input, "")

\* results.push({ test: t, run, assertions: evalResult })
TestResult(t, run) ==
  [test |-> t, run |-> run, assertions |-> evaluateTestAssertions(t, run)]

\* One section of the Markdown summary writeTestReports writes.
SummarySection(r) ==
  [name |-> OrElse(r.test.name, "(unnamed)"),
   input |-> OrElse(r.test.input, ""),
   final |-> Coalesce(r.run.final.nodeName, "(none)"),
   checks |-> [ k \in 1..Len(r.assertions) |->
                  [passed |-> r.assertions[k].passed,
                   type |-> r.assertions[k].type,
                   target |-> r.assertions[k].target,
                   value |-> r.assertions[k].value] ] ]

\* writeTestReports(results): the JSON document and the Markdown summary
TestReports(results) ==
  [json |-> results,
   md |-> [ k \in 1..Len(results) |-> SummarySection(results[k]) ]]

\* No runTests call was made.
NoSuite == [state |-> "none", calls |-> 0, results |-> << >>, written |-> << >>]

\* The test of tests.length left out: Array.isArray(tests)
HasTestsArrayOnly(c) == "tests" \notin c.missing

\* Array.isArray(tests) && tests.length > 0
HasTests(c) == "tests" \notin c.missing /\ Len(c.tests) > 0

-----------------------------------------------------------------------------
(* GangEngine.runGraph.                                                    *)

Running == { "loop", "await", "exit" }

\* The visit is closed on the way out, as by a finally around the loop body:
\* the node_end of the failing node is recorded.
UnwoundClosed(obs, evs, rid, nodeName) ==
  Record(obs, evs, Event("node_end", rid, nodeName, Null, Null, Null, Null))

\* An Error leaves runGraph from inside the loop: nothing catches it, and
\* onNodeEnd, onRunEnd and flushMarkdownIfNeeded are not reached
Unwound(obs, evs, rid, nodeName) == evs

\* The guard with the cap off by one: while (current && safetyCounter <= 50)
LoopGuardOffByOne(cur, counter) == Truthy(cur) /\ counter <= SafetyCap

\* The guard without the cap: while (current)
LoopGuardNoCap(cur, counter) == Truthy(cur)

\* while (current && safetyCounter < 50)
LoopGuard(cur, counter) == Truthy(cur) /\ counter < SafetyCap

\* Promise.allSettled in place of Promise.all: a rejected call does not
\* reject the awaiting runGraph.
AwaitAllSettled(ts) == "await"

\* await member.run(...) and await Promise.all(promises): the awaiting
\* runGraph is rejected as soon as one awaited call is, and goes on waiting
\* otherwise
AwaitAll(ts) ==
  IF \E i \in 1..Len(ts) : ts[i].status = "failed" THEN "failed" ELSE "await"

Pending(ts) == SelectSeq(ts, LAMBDA t : t.status = "pending")

IsSquad(nodeName) == nodeName \in DOMAIN squads

IsParallel(nodeName) == IsSquad(nodeName) /\ squads[nodeName].mode = "parallel"

IsSequential(nodeName) == IsSquad(nodeName) /\ squads[nodeName].mode # "parallel"

\* A pipeline: a node is given the content of the result before it, the
\* first node the run input.
NodeInputChained(runInput, results) ==
  IF Len(results) = 0 THEN runInput
  ELSE IF results[Len(results)].type = "member"
       THEN results[Len(results)].output.content
  ELSE IF Len(results[Len(results)].outputs) = 0 THEN runInput
  ELSE results[Len(results)].outputs[Len(results[Len(results)].outputs)].content

\* the first argument of member.run(input, ctx) at a member node and in a
\* parallel squad, and `let currentInput = input` of a sequential squad
NodeInput(runInput, results) == runInput

\* squadMeta.members.map((name) => member.run(input, ctx)) from member i on:
\* the calls begun, the events recorded, and Ok or the message of the Error
\* thrown at an undeclared member
RECURSIVE StartParallel(_, _, _)
StartParallel(names, i, acc) ==
  IF i > Len(names) THEN acc
  ELSE IF names[i] \notin DOMAIN members
       THEN [acc EXCEPT !.error = ErrUnknownSquadMember]
  ELSE StartParallel(names, i + 1,
         [turns |-> Append(acc.turns,
                           BeginTurn(members[names[i]],
                                     NodeInput(input, nodeResults), ctx,
                                     memory, acc.nCalls + 1)),
          events |-> Record(observer, acc.events,
                            BeforeEvent(members[names[i]],
                                        NodeInput(input, nodeResults))),
          nCalls |-> acc.nCalls + 1,
          error |-> Ok])

\* currentInput never updated: every member is given the run input.
SeqInputRunInput(runInput, ts, j) == runInput

\* currentInput of the sequential loop when member j is invoked
SeqInput(runInput, ts, j) == IF j = 1 THEN runInput ELSE ts[j - 1].out.content

\* the sequential loop reaches member j of the squad: it throws at an
\* undeclared member, else it invokes the member and waits for it
SeqInvoke(evs, ts, j) ==
  LET name == squads[current].members[j] IN
  IF name \notin DOMAIN members
  THEN /\ pc' = "failed"
       /\ outcome' = Thrown(ErrUnknownSquadMember)
       /\ turns' = ts
       /\ events' = evs
       /\ nCalls' = nCalls
  ELSE /\ pc' = "await"
       /\ outcome' = outcome
       /\ turns' = Append(ts,
                          BeginTurn(members[name],
                                    SeqInput(NodeInput(input, nodeResults),
                                             ts, j),
                                    ctx, memory, nCalls + 1))
       /\ events' = Record(observer, evs,
                           BeforeEvent(members[name],
                                       SeqInput(NodeInput(input, nodeResults),
                                                ts, j)))
       /\ nCalls' = nCalls + 1

\* Every run starts its own event list.
onRunStartAfresh(obs, evs, ev) == Record(obs, << >>, ev)

\* await this.observer?.onRunStart?.({ runId, workflow, input }): the event
\* is pushed on the list the observer has held since load
onRunStart(obs, evs, ev) == Record(obs, evs, ev)

\* The context mapping of the run before is taken over.
ContextKept(previous) == previous

\* const ctx = {}
NewContext(previous) == NoMap

\* runGraph(text, rid) up to the loop: load when no runner is held, check the
\* entry, record run_start, set the locals
BeginGraph(text, rid) ==
  /\ LET ld == IF DOMAIN members = {}
               THEN Load(cfg, members, squads, observer, events)
               ELSE [members |-> members, squads |-> squads,
                     observer |-> observer, events |-> events, error |-> Ok]
         err == IF ld.error # Ok THEN ld.error
                ELSE IF ~Truthy(cfg.workflow.entry) THEN ErrEntryRequired
                ELSE Ok
     IN  /\ members' = ld.members
         /\ squads' = ld.squads
         /\ observer' = ld.observer
         /\ IF err # Ok
            THEN /\ pc' = "failed"
                 /\ outcome' = Thrown(err)
                 /\ events' = ld.events
                 /\ runId' = Null
                 /\ input' = Null
                 /\ ctx' = NoMap
                 /\ nodeResults' = << >>
                 /\ current' = Null
                 /\ safetyCounter' = 0
            ELSE /\ pc' = "loop"
                 /\ outcome' = NoOutcome
                 /\ events' = onRunStart(ld.observer, ld.events,
                                         Event("run_start", rid, Null, Null,
                                               Null, text, Null))
                 /\ runId' = rid
                 /\ input' = text
                 /\ ctx' = NewContext(ctx)
                 /\ nodeResults' = << >>
                 /\ current' = cfg.workflow.entry
                 /\ safetyCounter' = 0
  /\ turns' = << >>

\* No call on the engine is under way: none was made, or the last one has
\* returned or failed.
Quiet ==
  /\ pc \in { "idle", "returned", "failed" }
  /\ ~(suite.state = "running" /\ pc = "returned")

\* A runTests call that a failed runGraph has rejected is over.
Settled(st) == IF st.state = "running" THEN [st EXCEPT !.state = "failed"] ELSE st

\* runOnce(input), that is runGraph(input, "single"), up to the loop
StartRun(text) ==
  /\ Quiet
  /\ runs < MaxRuns
  /\ runs' = runs + 1
  /\ BeginGraph(text, "single")
  /\ suite' = Settled(suite)
  /\ UNCHANGED << cfg, env, memory, orphans, nCalls, reports, probe,
                 loadError >>

\* One pass of the loop up to its first suspension: count the visit, record
\* node_start, find the node and invoke its member(s)
VisitNode ==
  /\ pc = "loop"
  /\ LoopGuard(current, safetyCounter)
  /\ Len(nodeResults) < TraceBound
  /\ safetyCounter' = safetyCounter + 1
  /\ LET evs == Record(observer, events,
                       Event("node_start", runId, current, Null, Null, Null,
                             Null))
     IN
     IF IsParallel(current)
     THEN LET st == StartParallel(squads[current].members, 1,
                                  [turns |-> << >>, events |-> evs,
                                   nCalls |-> nCalls, error |-> Ok])
          IN  /\ events' = st.events
              /\ nCalls' = st.nCalls
              /\ IF st.error # Ok
                 THEN /\ pc' = "failed"
                      /\ outcome' = Thrown(st.error)
                      /\ turns' = << >>
                      /\ orphans' = orphans \o st.turns
                 ELSE /\ pc' = "await"
                      /\ outcome' = outcome
                      /\ turns' = st.turns
                      /\ orphans' = orphans
     ELSE IF IsSequential(current)
     THEN /\ orphans' = orphans
          /\ IF Len(squads[current].members) = 0
             THEN /\ pc' = "await"
                  /\ events' = evs
                  /\ turns' = << >>
                  /\ UNCHANGED << outcome, nCalls >>
             ELSE SeqInvoke(evs, << >>, 1)
     ELSE IF current \notin DOMAIN members
     THEN /\ pc' = "failed"
          /\ outcome' = Thrown(ErrUnknownNode)
          /\ events' = Unwound(observer, evs, runId, current)
          /\ turns' = << >>
          /\ UNCHANGED << orphans, nCalls >>
     ELSE /\ pc' = "await"
          /\ turns' = << BeginTurn(members[current],
                                   NodeInput(input, nodeResults), ctx, memory,
                                   nCalls + 1) >>
          /\ events' = Record(observer, evs,
                              BeforeEvent(members[current],
                                          NodeInput(input, nodeResults)))
          /\ nCalls' = nCalls + 1
          /\ UNCHANGED << outcome, orphans >>
  /\ UNCHANGED << cfg, env, members, squads, observer, memory, runId, input,
                 ctx, nodeResults, current, runs, reports, probe,
                 loadError, suite >>

\* How many calls of the visit have completed (ranks completions in time)
Completed(ts) == Len(SelectSeq(ts, LAMBDA t : t.status = "done"))

\* The LLM answers the call of turn i: run parses the text, appends the
\* exchange to the member's bucket, records the "after" event and returns
LlmReply(i, shape) ==
  /\ pc = "await"
  /\ i \in 1..Len(turns)
  /\ turns[i].status = "pending"
  /\ turns[i].tool = Null
  /\ turns[i].callNo <= env.budget
  /\ shape \in env.shapes[turns[i].member]
  /\ shape.kind # "fail"
  /\ LET out == parseMemberJsonOutput(RawReply(shape, turns[i].callNo))
     IN  /\ memory' = TurnAppend(memory, turns[i], out)
         /\ events' = Record(observer, events, AfterEvent(turns[i], out))
         /\ turns' = [turns EXCEPT ![i] =
                        [@ EXCEPT !.status = "done", !.out = out,
                                  !.rank = Completed(turns) + 1,
                                  !.answer = shape.kind] ]
  /\ UNCHANGED << cfg, env, members, squads, observer, pc, runVars, orphans,
                 outcome, nCalls, runs, reports, probe,
                 loadError, suite >>

\* The call that failed is issued once more.
RejectedRetried(t) == [t EXCEPT !.callNo = @ + 1]

\* await this.executor.invoke(...) or await this.llm.invoke(...) is rejected:
\* run has no try around it and is rejected in turn
Rejected(t) == [t EXCEPT !.status = "failed"]

\* The LLM call of turn i fails: run is rejected, and with it the awaiting
\* runGraph; the other calls of a parallel squad stay pending on their own
LlmFail(i) ==
  /\ pc = "await"
  /\ i \in 1..Len(turns)
  /\ turns[i].status = "pending"
  /\ turns[i].tool = Null
  /\ turns[i].callNo <= env.budget
  /\ FailShape \in env.shapes[turns[i].member]
  /\ LET ts == [turns EXCEPT ![i] = Rejected(@)]
     IN  /\ pc' = AwaitAll(ts)
         /\ IF AwaitAll(ts) = "failed"
            THEN /\ outcome' = Thrown(ErrCapability)
                 /\ orphans' = orphans \o Pending(ts)
                 /\ events' = Unwound(observer, events, runId, current)
            ELSE /\ outcome' = outcome
                 /\ orphans' = orphans
                 /\ events' = events
         /\ turns' = ts
  /\ UNCHANGED << cfg, env, members, squads, observer, memory,
                 runVars, nCalls, runs, reports, probe,
                 loadError, suite >>

\* The sequential loop goes on to its next member once the one before it
\* has returned
SeqAdvance ==
  /\ pc = "await"
  /\ IsSequential(current)
  /\ Len(turns) < Len(squads[current].members)
  /\ Len(turns) > 0
  /\ turns[Len(turns)].status = "done"
  /\ SeqInvoke(events, turns, Len(turns) + 1)
  /\ UNCHANGED << cfg, env, members, squads, observer, memory, runVars,
                 orphans, runs, reports, probe,
                 loadError, suite >>

\* Outputs collected as the calls complete, labelled by position.
ParallelOutputsByCompletion(names, ts) ==
  [ idx \in 1..Len(ts) |->
      SquadOutput(names[idx],
                  (CHOOSE t \in Range(ts) : t.rank = idx).out) ]

\* outputs of a parallel squad: outputs.map((o, idx) => ({ member:
\* squadMeta.members[idx], ...o })), outputs being Promise.all's array
ParallelOutputs(names, ts) ==
  [ idx \in 1..Len(ts) |-> SquadOutput(names[idx], ts[idx].out) ]

\* outputs.find((o) => o.next)?.next ?? null
RECURSIVE FirstHint(_, _)
FirstHint(outputs, i) ==
  IF i > Len(outputs) THEN Null
  ELSE IF Truthy(outputs[i].next) THEN outputs[i].next
  ELSE FirstHint(outputs, i + 1)

\* A scan that keeps the last non-empty hint instead of the first.
RECURSIVE LastHint(_, _)
LastHint(outputs, i) ==
  IF i = 0 THEN Null
  ELSE IF Truthy(outputs[i].next) THEN outputs[i].next
  ELSE LastHint(outputs, i - 1)

ParallelNextLastHint(outputs) == LastHint(outputs, Len(outputs))

ParallelNext(outputs) == FirstHint(outputs, 1)

\* seqOutputs of a sequential squad: seqOutputs.push({ member: name, ...out })
SequentialOutputs(ts) ==
  [ idx \in 1..Len(ts) |-> SquadOutput(ts[idx].member, ts[idx].out) ]

\* The parallel rule applied to a sequential squad.
SequentialNextFirstHint(outputs) == FirstHint(outputs, 1)

\* last?.next ?? null
SequentialNext(outputs) ==
  IF Len(outputs) = 0 THEN Null ELSE Coalesce(outputs[Len(outputs)].next, Null)

\* the `result` of the visit of nodeName, once its calls have returned
VisitResult(nodeName, ts) ==
  IF IsParallel(nodeName)
  THEN SquadResult(nodeName, "parallel",
                   ParallelOutputs(squads[nodeName].members, ts),
                   ParallelNext(ParallelOutputs(squads[nodeName].members, ts)))
  ELSE IF IsSequential(nodeName)
  THEN SquadResult(nodeName, "sequential", SequentialOutputs(ts),
                   SequentialNext(SequentialOutputs(ts)))
  ELSE MemberResult(nodeName, ts[1].out)

\* An entry of the context is written once: a later visit of the node leaves
\* it as it is.
SetContextOnce(cx, nodeName, result) == cx @@ (nodeName :> CtxEntry(result))

\* ctx[nodeName] = result.outputs, = seqOutputs or = out
SetContext(cx, nodeName, result) == (nodeName :> CtxEntry(result)) @@ cx

\* The awaited calls have all returned: build the result, set ctx[nodeName],
\* record node_end, push the result, resolve the edge, then break or loop
JoinNode ==
  /\ pc = "await"
  /\ \A i \in 1..Len(turns) : turns[i].status # "pending"
  /\ IsSequential(current) => Len(turns) = Len(squads[current].members)
  /\ LET result == VisitResult(current, turns)
         nextNode == ResolveNext(cfg.workflow.steps, current, result.next)
     IN  /\ ctx' = SetContext(ctx, current, result)
         /\ events' = Record(observer, events,
                             Event("node_end", runId, current, Null, Null,
                                   Null, Null))
         /\ nodeResults' = Append(nodeResults, result)
         /\ IF ~Truthy(nextNode)
            THEN pc' = "exit" /\ current' = current
            ELSE pc' = "loop" /\ current' = nextNode
  /\ UNCHANGED << cfg, env, members, squads, observer, memory, runId, input,
                 safetyCounter, turns, orphans, outcome, nCalls, runs, reports,
                 probe,
                 loadError, suite >>

\* The first result is taken for the final one.
FinalResultFirst(nodes) == IF Len(nodes) = 0 THEN NoResult ELSE nodes[1]

\* nodeResults[nodeResults.length - 1] || null
FinalResult(nodes) == IF Len(nodes) = 0 THEN NoResult ELSE nodes[Len(nodes)]

\* The loop is left, by break or by its guard: record run_end, write the
\* Markdown report when asked for, return the run record
FinishRun ==
  /\ pc = "exit" \/ (pc = "loop" /\ ~LoopGuard(current, safetyCounter))
  /\ pc' = "returned"
  /\ events' = Record(observer, events,
                      Event("run_end", runId, FinalResult(nodeResults).nodeName,
                            Null, Null, input, Null))
  /\ reports' = IF Flushes(observer) THEN Append(reports, Len(events'))
                ELSE reports
  /\ outcome' = RunRecord(runId, input, nodeResults, FinalResult(nodeResults))
  /\ UNCHANGED << cfg, env, members, squads, observer, memory, runVars, turns,
                 orphans, nCalls, runs, probe,
                 loadError, suite >>

RemoveAt(seq, j) == SubSeq(seq, 1, j - 1) \o SubSeq(seq, j + 1, Len(seq))

\* A call left pending by a rejected run is answered: its run continues as
\* in LlmReply, and nobody awaits what it returns
OrphanReply(j, shape) ==
  /\ j \in 1..Len(orphans)
  /\ orphans[j].tool = Null
  /\ orphans[j].callNo <= env.budget
  /\ shape \in env.shapes[orphans[j].member]
  /\ shape.kind # "fail"
  /\ LET out == parseMemberJsonOutput(RawReply(shape, orphans[j].callNo))
     IN  /\ memory' = TurnAppend(memory, orphans[j], out)
         /\ events' = IF orphans[j].stale THEN events
                      ELSE Record(observer, events,
                                  Stray(AfterEvent(orphans[j], out)))
  /\ orphans' = RemoveAt(orphans, j)
  /\ UNCHANGED << cfg, env, members, squads, observer, pc, runVars, turns,
                 outcome, nCalls, runs, reports, probe,
                 loadError, suite >>

\* A call left pending by a rejected run fails: Promise.all has already been
\* rejected, the second rejection is dropped
OrphanFail(j) ==
  /\ j \in 1..Len(orphans)
  /\ orphans[j].tool = Null
  /\ orphans[j].callNo <= env.budget
  /\ FailShape \in env.shapes[orphans[j].member]
  /\ orphans' = RemoveAt(orphans, j)
  /\ UNCHANGED << cfg, env, members, squads, observer, events, memory, pc,
                 runVars, turns, outcome, nCalls, runs, reports, probe,
                 loadError, suite >>

\* The calls an agent loop can be running in: those of the visit under way,
\* or those left pending by a rejected run.
Places == { "run", "orphan" }

CallsAt(place) == IF place = "run" THEN turns ELSE orphans

\* An event recorded from a call at place.
From(place, ev) == IF place = "run" THEN ev ELSE Stray(ev)

\* The agent loop of call i at place invokes the wrapped tool `name`:
\* wrapped.invoke records tool_call and calls tool.invoke, which is pending
ToolCall(place, i, name) ==
  /\ place = "run" => pc = "await"
  /\ i \in 1..Len(CallsAt(place))
  /\ LET t == CallsAt(place)[i]
         called == [t EXCEPT !.tool = name, !.toolCalls = @ + 1]
     IN  /\ t.status = "pending"
         /\ t.tool = Null
         /\ t.toolCalls < env.tools
         /\ name \in Range(t.tools)
         /\ events' = IF t.stale THEN events
                      ELSE Record(observer, events,
                                  From(place, ToolCallEvent(t, name)))
         /\ IF place = "run"
            THEN turns' = [turns EXCEPT ![i] = called] /\ orphans' = orphans
            ELSE orphans' = [orphans EXCEPT ![i] = called] /\ turns' = turns
  /\ UNCHANGED << cfg, env, members, squads, observer, memory, pc, runVars,
                 outcome, nCalls, runs, reports, probe, loadError, suite >>

\* The tool invoked by call i at place returns: wrapped.invoke records
\* tool_result and returns the result to the agent loop
ToolReturn(place, i) ==
  /\ place = "run" => pc = "await"
  /\ i \in 1..Len(CallsAt(place))
  /\ LET t == CallsAt(place)[i]
         result == ToolOutput(t.tool)
         back == [t EXCEPT !.tool = Null, !.seen = Append(@, result)]
     IN  /\ t.status = "pending"
         /\ t.tool # Null
         /\ events' = IF t.stale THEN events
                      ELSE Record(observer, events,
                                  From(place, ToolResultEvent(t, t.tool, result)))
         /\ IF place = "run"
            THEN turns' = [turns EXCEPT ![i] = back] /\ orphans' = orphans
            ELSE orphans' = [orphans EXCEPT ![i] = back] /\ turns' = turns
  /\ UNCHANGED << cfg, env, members, squads, observer, memory, pc, runVars,
                 outcome, nCalls, runs, reports, probe, loadError, suite >>

\* The tool invoked by call i at place fails: wrapped.invoke is rejected,
\* and with it the agent loop and the member's run; at "run" the awaiting
\* runGraph is rejected as in LlmFail, at "orphan" nobody awaits the call
ToolFail(place, i) ==
  /\ place = "run" => pc = "await"
  /\ i \in 1..Len(CallsAt(place))
  /\ LET t == CallsAt(place)[i]
         ts == [turns EXCEPT ![i] = Rejected(@)]
     IN  /\ t.status = "pending"
         /\ t.tool # Null
         /\ events' = IF t.stale THEN events
                      ELSE WrappedFailure(observer, events,
                             From(place, ToolResultEvent(t, t.tool, Null)))
         /\ IF place = "run"
            THEN /\ pc' = AwaitAll(ts)
                 /\ IF AwaitAll(ts) = "failed"
                    THEN /\ outcome' = Thrown(ErrCapability)
                         /\ orphans' = orphans \o Pending(ts)
                    ELSE /\ outcome' = outcome
                         /\ orphans' = orphans
                 /\ turns' = ts
            ELSE /\ orphans' = RemoveAt(orphans, i)
                 /\ UNCHANGED << pc, outcome, turns >>
  /\ UNCHANGED << cfg, env, members, squads, observer, memory, runVars,
                 nCalls, runs, reports, probe, loadError, suite >>

\* The runners of the calls still pending keep the observer they were built
\* with: once load has replaced the engine's observer, what they record no
\* longer reaches the engine's event list.
Detach(ts) == [ j \in 1..Len(ts) |-> [ts[j] EXCEPT !.stale = TRUE] ]

\* engine.load() called by the engine's user between two calls of runOnce
LoadCall ==
  /\ Quiet
  /\ LET ld == Load(cfg, members, squads, observer, events)
     IN  /\ members' = ld.members
         /\ squads' = ld.squads
         /\ observer' = ld.observer
         /\ events' = ld.events
         /\ loadError' = ld.error
         /\ orphans' = IF validateConfig(cfg) = Ok THEN Detach(orphans)
                       ELSE orphans
  /\ UNCHANGED << cfg, env, memory, pc, runVars, turns, outcome, nCalls, runs,
                 reports, probe, suite >>

\* runTests() up to the loop of the first test's runGraph: this.config is set
\* since the constructor, so load is left to runGraph; without tests it throws
\* and no runGraph call, hence none of its locals, comes to be; the loop over
\* an empty array would run no test and go on to writeTestReports
RunTestsCall ==
  /\ Quiet
  /\ runs < MaxRuns
  /\ runs' = runs + 1
  /\ IF ~HasTests(cfg)
     THEN /\ pc' = "failed"
          /\ outcome' = Thrown(ErrNoTests)
          /\ suite' = [suite EXCEPT !.state = "failed", !.calls = @ + 1,
                                    !.results = << >>]
          /\ runId' = Null
          /\ input' = Null
          /\ ctx' = NoMap
          /\ nodeResults' = << >>
          /\ current' = Null
          /\ safetyCounter' = 0
          /\ turns' = << >>
          /\ UNCHANGED << members, squads, observer, events >>
     ELSE IF Len(cfg.tests) = 0
     THEN /\ suite' = [state |-> "returned", calls |-> suite.calls + 1,
                       results |-> << >>,
                       written |-> Append(suite.written, TestReports(<< >>))]
          /\ UNCHANGED << members, squads, observer, events, pc, outcome,
                          runVars, turns >>
     ELSE /\ BeginGraph(TestInput(cfg.tests[1]), TestRunId(cfg.tests[1], 0))
          /\ suite' = [suite EXCEPT !.state = "running", !.calls = @ + 1,
                                    !.results = << >>]
  /\ UNCHANGED << cfg, env, memory, orphans, nCalls, reports, probe,
                 loadError >>

\* runTests once the runGraph of a test has returned: evaluate the test's
\* assertions, push its result, and go on to the next test's runGraph or,
\* after the last test, write the reports and return the results
ContinueTests ==
  /\ suite.state = "running"
  /\ pc = "returned"
  /\ LET t == cfg.tests[Len(suite.results) + 1]
         results == Append(suite.results, TestResult(t, outcome))
     IN  IF Len(results) < Len(cfg.tests)
         THEN /\ BeginGraph(TestInput(cfg.tests[Len(results) + 1]),
                            TestRunId(cfg.tests[Len(results) + 1], Len(results)))
              /\ suite' = [suite EXCEPT !.results = results]
         ELSE /\ suite' = [suite EXCEPT !.state = "returned",
                                         !.results = results,
                                         !.written = Append(@, TestReports(results))]
              /\ UNCHANGED << members, squads, observer, events, pc, outcome,
                              runVars, turns >>
  /\ UNCHANGED << cfg, env, memory, orphans, nCalls, runs, reports, probe,
                 loadError >>

-----------------------------------------------------------------------------
(* Configurations and LLM capabilities the engine is checked on.           *)

Member(name, tools, memoryId) ==
  [name |-> name, tools |-> tools, memoryId |-> memoryId]

Squad(name, names, mode) == [name |-> name, members |-> names, mode |-> mode]

Config(defs, squadDefs, entry, steps, enabled, markdown) ==
  [name |-> "gang", missing |-> {}, members |-> defs, squads |-> squadDefs,
   workflow |-> [entry |-> entry, steps |-> steps],
   observability |-> [enabled |-> enabled, markdown |-> markdown],
   tests |-> << >>]

\* createMember(name, role, tools = [], memoryId = "shared")
createMember(name, tools, memoryId) ==
  Member(name, tools, IF memoryId = Null THEN "shared" ELSE memoryId)

MemA == Member("a", << >>, "shared")
MemB == Member("b", << >>, "shared")
MemC == Member("c", << "web_search" >>, "own")

\* No steps: the emitted hint alone names the next node.
HintGraph ==
  Config(<< MemA, MemB >>,
         << Squad("s", << "a", "b" >>, "parallel"),
            Squad("q", << "a", "b" >>, "sequential") >>,
         "a", << >>, TRUE, TRUE)

\* The configuration of the repository's runOnce test: one member without
\* tools, no steps, observability disabled.
SoloGraph ==
  Config(<< Member("m1", << >>, "global") >>, << >>, "m1", << >>, FALSE, FALSE)

\* The graph of the spec's example: one step a -> b when "go".
GoGraph ==
  Config(<< MemA, MemB >>, << >>, "a", << Step("a", "b", "go") >>, FALSE, FALSE)

\* Steps over members and squads, an `always` step declared before a hint
\* step from the same node, and a step to null.
StepGraph ==
  Config(<< MemA, MemB, MemC >>,
         << Squad("s", << "b", "c", "a" >>, "parallel"),
            Squad("q", << "b", "a" >>, "sequential") >>,
         "a",
         << Step("a", "q", "always"), Step("a", "s", "go"),
            Step("s", "c", "s"), Step("q", Null, "always") >>,
         TRUE, FALSE)

\* The repository's analysisGang example: the entry is a squad.
analysisGang ==
  Config(<< Member("collector", << "web_search", "read_file" >>, "shared"),
            Member("analyst", << "list_directory" >>, "shared"),
            Member("reporter", << >>, "shared"),
            Member("reviewer", << >>, "shared") >>,
         << Squad("analysis_squad", << "collector", "analyst" >>, "parallel"),
            Squad("production_squad", << "reporter", "reviewer" >>,
                  "sequential") >>,
         "analysis_squad",
         << Step("analysis_squad", "production_squad", "data_analyzed"),
            Step("analysis_squad", "reviewer", "no_data_needed"),
            Step("production_squad", Null, "always") >>,
         TRUE, TRUE)

\* The entry names neither a member nor a squad.
LostEntryGraph ==
  Config(<< MemA, MemB >>, << Squad("s", << "a", "b" >>, "parallel") >>,
         "nobody", << >>, TRUE, FALSE)

\* A required field is absent.
NoLlmGraph == [HintGraph EXCEPT !.missing = { "llm" }]

NoWorkflowGraph == [HintGraph EXCEPT !.missing = { "version", "workflow" }]

\* No members field.
NoMembersFieldGraph == [HintGraph EXCEPT !.missing = { "members" }]

\* members: []
NoMembersGraph == Config(<< >>, << >>, "a", << >>, TRUE, FALSE)

\* The second member names a tool the registry does not hold.
BadToolGraph ==
  Config(<< MemA, Member("c", << "web_search", "bogus" >>, "own"), MemB >>,
         << Squad("s", << "a", "b" >>, "parallel") >>,
         "a", << >>, TRUE, FALSE)

\* The first member names a tool the registry does not hold.
BadFirstToolGraph ==
  Config(<< Member("c", << "bogus" >>, "own"), MemA >>, << >>,
         "a", << >>, TRUE, FALSE)

\* A squad bears the name of a member.
CollideGraph ==
  Config(<< MemA, MemB >>, << Squad("a", << "b", "a" >>, "sequential") >>,
         "a", << >>, TRUE, FALSE)

\* Squads list a member that is not declared.
GhostGraph ==
  Config(<< MemA, MemB >>,
         << Squad("s", << "b", "ghost", "a" >>, "parallel"),
            Squad("q", << "b", "ghost" >>, "sequential") >>,
         "a", << >>, TRUE, FALSE)

\* Members declared with no memoryId and with an empty one, next to a member
\* with a bucket.
NoBucketGraph ==
  Config(<< createMember("a", << >>, Null), Member("n", << >>, Null),
            Member("e", << >>, "") >>,
         << Squad("s", << "n", "a", "e" >>, "parallel") >>,
         "a", << >>, TRUE, FALSE)

\* No steps, and a member may emit a hint that names no node.
StrayHintGraph ==
  Config(<< MemA, MemB >>, << >>, "a", << >>, TRUE, FALSE)

\* A step leads to a node that is not declared.
StrayStepGraph ==
  Config(<< MemA, MemB >>, << >>, "a",
         << Step("a", "b", "go"), Step("b", "nowhere", "always") >>,
         TRUE, FALSE)

\* Two members with tools side by side in a parallel squad, entered from a
\* member without tools.
ToolGraph ==
  Config(<< MemA, MemC, Member("d", << "read_file" >>, "own") >>,
         << Squad("p", << "c", "d" >>, "parallel") >>,
         "a", << Step("a", "p", "always") >>, TRUE, FALSE)

\* A member, then a parallel squad of two members that share the member's
\* bucket.
RerunGraph ==
  Config(<< MemA, MemB >>, << Squad("s", << "a", "b" >>, "parallel") >>,
         "a", << Step("a", "s", "always") >>, TRUE, FALSE)

\* One member with two tools.
SoloToolGraph ==
  Config(<< Member("c", << "web_search", "list_directory" >>, "own") >>,
         << >>, "c", << >>, TRUE, FALSE)

\* The same with observability disabled.
QuietToolGraph == [ToolGraph EXCEPT !.observability.enabled = FALSE]

\* The configuration of the repository's runOnce test with two tests: the
\* second has neither name nor input, and assertions of unknown kinds stand
\* between `contains` assertions.
SoloTests ==
  << Test("first", "in",
          << Assertion("contains", "m1", "edge"),
             Assertion("equals", "m1", "edge"),
             Assertion("contains", "m1", "Edge") >>),
     Test(Null, Null,
          << Assertion("matches", "m1", "t2"),
             Assertion("contains", "ghost", "edge"),
             Assertion("contains", "m1", Null),
             Assertion("contains", "m1", "n e") >>) >>

TestedGraph == [SoloGraph EXCEPT !.tests = SoloTests]

\* One test on a graph with squads, asserting on members run inside a squad
\* and on the squad's name.
TestedSquadGraph ==
  [HintGraph EXCEPT !.tests =
     << Test("squad", "in",
             << Assertion("contains", "b", "edge"),
                Assertion("contains", "a", "Edge"),
                Assertion("contains", "s", "edge"),
                Assertion("contains", "a", "n e") >>) >>]

\* config.tests is absent.
UntestedGraph == [SoloGraph EXCEPT !.missing = { "tests" }]

\* What the LLM may answer a member: JSON with one of the hints, JSON without
\* content, plain text, or a failure.
ShapesOver(hints) ==
  { JsonShape(h) : h \in hints } \cup { EmptyShape, ArrayShape, TextShape, FailShape }

MemberNames(c) == { c.members[i].name : i \in 1..Len(c.members) }

\* An LLM that answers at most `budget` calls, each with any of the shapes.
AnyAnswer(c, hints, budget) ==
  [shapes |-> [m \in MemberNames(c) |-> ShapesOver(hints)], budget |-> budget,
   tools |-> 0]

\* The same LLM, which has the agent loop of a member with tools invoke at
\* most n tools a turn; a tool invoked returns or fails.
Tooled(e, n) == [e EXCEPT !.tools = n]

\* An LLM that answers at most `budget` calls, each with JSON that has a
\* content and one of the hints, with plain text, or with a failure.
PlainAnswer(c, hints, budget) ==
  [shapes |-> [m \in MemberNames(c) |->
                 { JsonShape(h) : h \in hints } \cup { TextShape, FailShape }],
   budget |-> budget, tools |-> 0]

\* The calls in which every member of c is invoked once.
OneRound(c) == Cardinality(MemberNames(c))

\* An LLM that answers at most `budget` calls, each with JSON that has no
\* hint or with a failure.
AnswerOrFail(c, budget) ==
  [shapes |-> [m \in MemberNames(c) |-> { JsonShape(Null), FailShape }],
   budget |-> budget, tools |-> 0]

Scenarios ==
  { << SoloGraph, AnyAnswer(SoloGraph, { Null, "m1" }, MaxCalls) >>,
    << HintGraph, AnyAnswer(HintGraph, { Null, "", "s", "q" }, MaxCalls) >>,
    << GoGraph, AnyAnswer(GoGraph, { Null, "go", "stop", "b" }, MaxCalls) >>,
    << StepGraph, PlainAnswer(StepGraph, { Null, "go", "s" }, MaxCalls) >>,
    << analysisGang, AnyAnswer(analysisGang, { Null, "data_analyzed" },
                               MaxCalls) >>,
    << LostEntryGraph, AnyAnswer(LostEntryGraph, { Null }, MaxCalls) >>,
    << NoLlmGraph, AnyAnswer(NoLlmGraph, { Null }, MaxCalls) >>,
    << NoWorkflowGraph, AnyAnswer(NoWorkflowGraph, { Null }, MaxCalls) >>,
    << NoMembersGraph, AnyAnswer(NoMembersGraph, { Null }, MaxCalls) >>,
    << NoMembersFieldGraph, AnyAnswer(NoMembersFieldGraph, { Null }, MaxCalls) >>,
    << BadToolGraph, AnyAnswer(BadToolGraph, { Null, "s" }, MaxCalls) >>,
    << BadFirstToolGraph, AnyAnswer(BadFirstToolGraph, { Null }, MaxCalls) >>,
    << CollideGraph, AnyAnswer(CollideGraph, { Null, "a" }, MaxCalls) >>,
    << GhostGraph, PlainAnswer(GhostGraph, { Null, "s", "q" }, MaxCalls) >>,
    << NoBucketGraph, PlainAnswer(NoBucketGraph, { Null, "s" }, MaxCalls) >>,
    << StrayHintGraph, AnyAnswer(StrayHintGraph, { Null, "b", "nowhere" },
                                 MaxCalls) >>,
    << StrayStepGraph, AnyAnswer(StrayStepGraph, { Null, "go" }, MaxCalls) >>,
    << TestedGraph, AnyAnswer(TestedGraph, { Null, "m1" }, MaxCalls - 1) >>,
    << TestedSquadGraph,
       AnyAnswer(TestedSquadGraph, { Null, "s" }, MaxCalls - 1) >>,
    << UntestedGraph, AnyAnswer(UntestedGraph, { Null }, MaxCalls) >>,
    << ToolGraph, Tooled(AnswerOrFail(ToolGraph, OneRound(ToolGraph)), 1) >>,
    << RerunGraph, AnswerOrFail(RerunGraph, 3 * OneRound(RerunGraph)) >>,
    << QuietToolGraph,
       Tooled(AnswerOrFail(QuietToolGraph, OneRound(QuietToolGraph)), 1) >>,
    << SoloToolGraph,
       Tooled(AnyAnswer(SoloToolGraph, { Null }, 2 * OneRound(SoloToolGraph)),
              2) >> }

\* The calls one engine can issue at all: never a limit on a scripted LLM.
Patient == MaxRuns * TraceBound * 3

\* An LLM that answers every call, a given member always with the same shape.
Scripted(script) ==
  [shapes |-> [m \in DOMAIN script |-> { script[m] }], budget |-> Patient,
   tools |-> 0]

\* No steps, a parallel and a sequential squad that hints can re-enter; one
\* bucket per member and no observer.
LoopGraph ==
  Config(<< Member("a", << >>, "ma"), Member("b", << >>, "mb") >>,
         << Squad("p", << "a", "b" >>, "parallel"),
            Squad("q", << "a", "b" >>, "sequential") >>,
         "a", << >>, FALSE, FALSE)

LoopShapes == { JsonShape(h) : h \in { Null, "a", "p", "q" } } \cup { FailShape }

\* A cycle of `always` steps through a member and a sequential squad, and a
\* parallel squad entered on "go".
CycleGraph ==
  Config(<< MemA, MemB, MemC >>,
         << Squad("q", << "b", "c" >>, "sequential"),
            Squad("p", << "b", "c" >>, "parallel") >>,
         "a",
         << Step("a", "p", "go"), Step("a", "q", "always"),
            Step("q", "a", "always") >>,
         TRUE, TRUE)

CycleShapes == { JsonShape(Null), JsonShape("go"), FailShape }

CapScenarios ==
  { << LoopGraph, Scripted(f) >> : f \in [MemberNames(LoopGraph) -> LoopShapes] }
  \cup
  { << CycleGraph, Scripted(f) >> : f \in [MemberNames(CycleGraph) -> CycleShapes] }
  \cup
  { << TestedGraph, Scripted(f) >> :
      f \in [MemberNames(TestedGraph) -> { JsonShape(Null), TextShape }] }
  \cup
  { << SoloToolGraph, Tooled(Scripted(f), 1) >> :
      f \in [MemberNames(SoloToolGraph) -> { JsonShape(Null), TextShape }] }

NoProbe == [kind |-> "none"]

\* new GangEngine({ config, llmFactory })
Constructed ==
  /\ members = NoMap
  /\ squads = NoMap
  /\ observer = NoObserver
  /\ events = << >>
  /\ memory = NoMap
  /\ pc = "idle"
  /\ runId = Null
  /\ input = Null
  /\ ctx = NoMap
  /\ nodeResults = << >>
  /\ current = Null
  /\ safetyCounter = 0
  /\ turns = << >>
  /\ orphans = << >>
  /\ outcome = NoOutcome
  /\ nCalls = 0
  /\ runs = 0
  /\ reports = << >>
  /\ loadError = Null
  /\ suite = NoSuite

\* No second engine.
NoTwin == [phase |-> "none"]

Init ==
  /\ \E sc \in Scenarios : cfg = sc[1] /\ env = sc[2]
  /\ Constructed
  /\ probe = NoProbe
  /\ twin = NoTwin

CapInit ==
  /\ \E sc \in CapScenarios : cfg = sc[1] /\ env = sc[2]
  /\ Constructed
  /\ probe = NoProbe
  /\ twin = NoTwin

\* The engine is on its own.
Alone == UNCHANGED twin

Next ==
  \/ \E text \in Inputs : StartRun(text) /\ Alone
  \/ VisitNode /\ Alone
  \/ \E i \in 1..Len(turns) : \E shape \in env.shapes[turns[i].member] :
       LlmReply(i, shape) /\ Alone
  \/ \E i \in 1..Len(turns) : LlmFail(i) /\ Alone
  \/ SeqAdvance /\ Alone
  \/ JoinNode /\ Alone
  \/ FinishRun /\ Alone
  \/ \E j \in 1..Len(orphans) : \E shape \in env.shapes[orphans[j].member] :
       OrphanReply(j, shape) /\ Alone
  \/ \E j \in 1..Len(orphans) : OrphanFail(j) /\ Alone
  \/ \E place \in Places : \E i \in 1..Len(CallsAt(place)) :
       \E name \in BuiltinTools : ToolCall(place, i, name) /\ Alone
  \/ \E place \in Places : \E i \in 1..Len(CallsAt(place)) :
       ToolReturn(place, i) /\ Alone
  \/ \E place \in Places : \E i \in 1..Len(CallsAt(place)) :
       ToolFail(place, i) /\ Alone
  \/ LoadCall /\ Alone
  \/ RunTestsCall /\ Alone
  \/ ContinueTests /\ Alone

\* Any configuration of Scenarios, an LLM free in what it answers.
Spec == Init /\ [][Next]_vars

\* Graphs with cycles, an LLM that answers every call.  The event loop runs
\* every continuation that is ready, and every LLM call settles.
CapSpec == CapInit /\ [][Next]_vars /\ WF_vars(Next)

-----------------------------------------------------------------------------
(* Two engines side by side: the same calls are made on both and the LLM   *)
(* gives both the same answers in the same order.  One engine is held in   *)
(* the variables and takes a step; the engines change places; the other    *)
(* takes the same step; they change places again.                          *)

\* Everything one engine holds.
EngineState ==
  [cfg |-> cfg, env |-> env, members |-> members, squads |-> squads,
   observer |-> observer, events |-> events, memory |-> memory, pc |-> pc,
   runId |-> runId, input |-> input, ctx |-> ctx,
   nodeResults |-> nodeResults, current |-> current,
   safetyCounter |-> safetyCounter, turns |-> turns, orphans |-> orphans,
   outcome |-> outcome, nCalls |-> nCalls, runs |-> runs,
   reports |-> reports, loadError |-> loadError, suite |-> suite]

\* new GangEngine({ config, llmFactory }), as a value
ConstructedState(c, e) ==
  [cfg |-> c, env |-> e, members |-> NoMap, squads |-> NoMap,
   observer |-> NoObserver, events |-> << >>, memory |-> NoMap,
   pc |-> "idle", runId |-> Null, input |-> Null, ctx |-> NoMap,
   nodeResults |-> << >>, current |-> Null, safetyCounter |-> 0,
   turns |-> << >>, orphans |-> << >>, outcome |-> NoOutcome, nCalls |-> 0,
   runs |-> 0, reports |-> << >>, loadError |-> Null, suite |-> NoSuite]

\* The same configuration with observability.enabled the other way.
Flip(c) == [c EXCEPT !.observability.enabled = ~@]

\* What was done to an engine: the call made on it, or the continuation
\* that ran and the answer the LLM gave it.
Label(act, text, i, shape) ==
  [act |-> act, text |-> text, i |-> i, shape |-> shape]

NoLabel == Label("none", Null, 0, EmptyShape)

\* The first engine takes any step, the second one the step the first took.
Follow(lab) ==
  \/ /\ twin.phase = "first"
     /\ twin' = [twin EXCEPT !.phase = "park", !.log = lab]
  \/ /\ twin.phase = "second"
     /\ twin.log = lab
     /\ twin' = [twin EXCEPT !.phase = "back"]

\* The engines change places.
SwapEngines ==
  /\ twin.phase \in { "park", "back" }
  /\ twin' = [twin EXCEPT !.phase = IF @ = "park" THEN "second" ELSE "first",
                          !.parked = EngineState]
  /\ cfg' = twin.parked.cfg
  /\ env' = twin.parked.env
  /\ members' = twin.parked.members
  /\ squads' = twin.parked.squads
  /\ observer' = twin.parked.observer
  /\ events' = twin.parked.events
  /\ memory' = twin.parked.memory
  /\ pc' = twin.parked.pc
  /\ runId' = twin.parked.runId
  /\ input' = twin.parked.input
  /\ ctx' = twin.parked.ctx
  /\ nodeResults' = twin.parked.nodeResults
  /\ current' = twin.parked.current
  /\ safetyCounter' = twin.parked.safetyCounter
  /\ turns' = twin.parked.turns
  /\ orphans' = twin.parked.orphans
  /\ outcome' = twin.parked.outcome
  /\ nCalls' = twin.parked.nCalls
  /\ runs' = twin.parked.runs
  /\ reports' = twin.parked.reports
  /\ loadError' = twin.parked.loadError
  /\ suite' = twin.parked.suite
  /\ UNCHANGED probe

\* A step of the engine held in the variables.
EngineStep ==
  \/ \E text \in Inputs :
       StartRun(text) /\ Follow(Label("runOnce", text, 0, EmptyShape))
  \/ VisitNode /\ Follow(Label("visit", Null, 0, EmptyShape))
  \/ \E i \in 1..Len(turns) : \E shape \in env.shapes[turns[i].member] :
       LlmReply(i, shape) /\ Follow(Label("reply", Null, i, shape))
  \/ \E i \in 1..Len(turns) :
       LlmFail(i) /\ Follow(Label("fail", Null, i, FailShape))
  \/ SeqAdvance /\ Follow(Label("advance", Null, 0, EmptyShape))
  \/ JoinNode /\ Follow(Label("join", Null, 0, EmptyShape))
  \/ FinishRun /\ Follow(Label("finish", Null, 0, EmptyShape))
  \/ \E j \in 1..Len(orphans) : \E shape \in env.shapes[orphans[j].member] :
       OrphanReply(j, shape) /\ Follow(Label("orphan reply", Null, j, shape))
  \/ \E j \in 1..Len(orphans) :
       OrphanFail(j) /\ Follow(Label("orphan fail", Null, j, FailShape))
  \/ \E place \in Places : \E i \in 1..Len(CallsAt(place)) :
       \E name \in BuiltinTools :
         ToolCall(place, i, name) /\ Follow(Label(place, name, i, EmptyShape))
  \/ \E place \in Places : \E i \in 1..Len(CallsAt(place)) :
       ToolReturn(place, i) /\ Follow(Label(place, "tool returns", i, EmptyShape))
  \/ \E place \in Places : \E i \in 1..Len(CallsAt(place)) :
       ToolFail(place, i) /\ Follow(Label(place, "tool fails", i, FailShape))
  \/ LoadCall /\ Follow(Label("load", Null, 0, EmptyShape))
  \/ RunTestsCall /\ Follow(Label("runTests", Null, 0, EmptyShape))
  \/ ContinueTests /\ Follow(Label("next test", Null, 0, EmptyShape))

TwinScenarios ==
  { << HintGraph, AnyAnswer(HintGraph, { Null, "s", "q" }, MaxCalls - 1) >>,
    << StepGraph, AnyAnswer(StepGraph, { Null, "go" }, OneRound(StepGraph)) >>,
    << GhostGraph, AnyAnswer(GhostGraph, { Null, "s" }, OneRound(GhostGraph)) >>,
    << TestedGraph, AnyAnswer(TestedGraph, { Null }, 2 * OneRound(TestedGraph)) >>,
    << ToolGraph, Tooled(AnswerOrFail(ToolGraph, OneRound(ToolGraph)), 1) >> }

\* Two engines that differ in observability.enabled only.
TwinInit ==
  /\ \E sc \in TwinScenarios : \E on \in BOOLEAN :
       LET c == [sc[1] EXCEPT !.observability.enabled = on]
       IN  /\ cfg = c
           /\ env = sc[2]
           /\ twin = [phase |-> "first", log |-> NoLabel,
                      parked |-> ConstructedState(Flip(c), sc[2])]
  /\ Constructed
  /\ probe = NoProbe

TwinNext == EngineStep \/ SwapEngines

TwinSpec == TwinInit /\ [][TwinNext]_vars

-----------------------------------------------------------------------------
(* Edge resolution applied on its own.                                     *)

StepNodes == { "a", "b" }
StepTargets == { "b", "c", Null }
StepTokens == { "always", "go", "c" }
ProbeHints == { Null, "", "go", "b", "c", "always" }

StepUniverse ==
  { Step(f, t, w) : f \in StepNodes, t \in StepTargets, w \in StepTokens }

StepLists == UNION { [1..n -> StepUniverse] : n \in 0..MaxSteps }

EdgeInit ==
  /\ cfg = GoGraph
  /\ env = AnyAnswer(GoGraph, { Null }, 0)
  /\ Constructed
  /\ \E steps \in StepLists : \E hint \in ProbeHints :
       probe = [kind |-> "edge", steps |-> steps, nodeName |-> "a",
                hint |-> hint, done |-> FALSE, next |-> Null]
  /\ twin = NoTwin

\* nextNode for the probe's steps, node and hint
EdgeResolve ==
  /\ probe.kind = "edge"
  /\ ~probe.done
  /\ probe' = [probe EXCEPT !.done = TRUE,
                            !.next = ResolveNext(probe.steps, probe.nodeName,
                                                 probe.hint)]
  /\ UNCHANGED << cfg, env, members, squads, observer, events, memory, pc,
                 runVars, turns, orphans, outcome, nCalls, runs, reports,
                 loadError, suite, twin >>

EdgeNext == EdgeResolve

EdgeSpec == EdgeInit /\ [][EdgeNext]_vars

-----------------------------------------------------------------------------
(* Claims.                                                                 *)

Last(seq) == seq[Len(seq)]

Steps == cfg.workflow.steps

\* The run has recorded a result and is not inside a later visit.
Joined == Len(nodeResults) > 0 /\ pc \in { "loop", "exit", "returned" }

\* C1: a run visits at most 50 nodes; when the edge resolved after the 50th
\* visit names a further node, the run does not fail: it returns a run record
\* with exactly 50 node results whose final result is the 50th.
C1_VisitCap ==
  /\ safetyCounter <= SafetyCap
  /\ Len(nodeResults) <= SafetyCap
  /\ ( /\ Joined
       /\ Len(nodeResults) = SafetyCap
       /\ Truthy(ResolveNext(Steps, Last(nodeResults).nodeName,
                             Last(nodeResults).next)) )
     => /\ pc \in { "loop", "returned" }
        /\ pc = "returned" =>
             /\ outcome.kind = "returned"
             /\ Len(outcome.nodes) = SafetyCap
             /\ outcome.nodes = nodeResults
             /\ outcome.final = nodeResults[SafetyCap]

\* A run returned at the cap while its last node still named a successor.
C1_Witness ==
  /\ pc = "returned"
  /\ Len(outcome.nodes) = SafetyCap
  /\ Truthy(ResolveNext(Steps, outcome.final.nodeName, outcome.final.next))

\* C2: every run that was started returns or fails, on every graph, cyclic
\* ones included, when every LLM call settles.
C2_RunTerminates == (pc \in Running) ~> (pc \in { "returned", "failed" })

\* A run on a cycle: a node is visited for the third time.
C2_Witness ==
  /\ pc = "returned"
  /\ Len(nodeResults) >= 3
  /\ nodeResults[1].nodeName = nodeResults[3].nodeName
  /\ Truthy(Last(nodeResults).next)

\* The first index of a non-empty set of indices.
MinOf(S) == CHOOSE i \in S : \A j \in S : i <= j

HintSteps(steps, n, h) ==
  { i \in 1..Len(steps) :
      steps[i].from = n /\ (steps[i].to = h \/ steps[i].when = h) }

AlwaysSteps(steps, n) ==
  { i \in 1..Len(steps) : steps[i].from = n /\ steps[i].when = "always" }

\* The next node as C3 words it.
ClaimedNext(steps, n, h) ==
  IF Truthy(h) /\ HintSteps(steps, n, h) # {}
  THEN steps[MinOf(HintSteps(steps, n, h))].to
  ELSE IF AlwaysSteps(steps, n) # {}
  THEN steps[MinOf(AlwaysSteps(steps, n))].to
  ELSE Null

\* C3: with at least one step declared, the next node after N is the `to` of
\* the first step from N matching the emitted hint (to = hint or when = hint),
\* else the `to` of the first step from N with when = "always"; without a
\* hint only the first `always` step from N is eligible.
C3_EdgeResolution ==
  (probe.kind = "edge" /\ probe.done /\ Len(probe.steps) > 0)
    => probe.next = ClaimedNext(probe.steps, probe.nodeName, probe.hint)

\* An `always` step declared before a hint-matching step, to another node:
\* the hint-matching step is taken.
C3_Witness ==
  /\ probe.kind = "edge"
  /\ probe.done
  /\ Len(probe.steps) = 2
  /\ probe.steps[1].from = probe.nodeName
  /\ probe.steps[1].when = "always"
  /\ probe.steps[2].from = probe.nodeName
  /\ probe.steps[2].when = probe.hint
  /\ Truthy(probe.hint)
  /\ probe.hint # "always"
  /\ probe.steps[1].to # probe.steps[2].to
  /\ probe.steps[1].to # probe.hint
  /\ probe.next = probe.steps[2].to

\* No step from n is eligible for hint h.
NoEligible(n, h) ==
  ~ \E i \in 1..Len(Steps) :
      /\ Steps[i].from = n
      /\ \/ Steps[i].when = "always"
         \/ Truthy(h) /\ (Steps[i].to = h \/ Steps[i].when = h)

\* C4: with steps declared, when no step is eligible for the node just
\* visited the run ends without failing and returns that node's result as
\* final; on the graph {a -> b when go}, hint "go" from a leads to b and hint
\* "stop" ends the run at a.
C4_NoMatchEndsRun ==
  /\ ( /\ Len(Steps) > 0
       /\ Len(nodeResults) > 0
       /\ NoEligible(Last(nodeResults).nodeName, Last(nodeResults).next) )
     => /\ pc \in { "exit", "returned" }
        /\ pc = "returned" =>
             /\ outcome.kind = "returned"
             /\ outcome.nodes = nodeResults
             /\ outcome.final = Last(nodeResults)
  /\ ( /\ cfg = GoGraph
       /\ Len(nodeResults) > 0
       /\ nodeResults[1].next = "go" )
     => IF Len(nodeResults) = 1
        THEN current = "b" /\ pc \in { "loop", "await", "failed" }
        ELSE nodeResults[2].nodeName = "b"
  /\ ( /\ cfg = GoGraph
       /\ Len(nodeResults) > 0
       /\ nodeResults[1].next = "stop" )
     => /\ Len(nodeResults) = 1
        /\ pc \in { "exit", "returned" }
        /\ pc = "returned" => outcome.final.nodeName = "a"

\* On {a -> b when go}, a emitted "stop" and the run returned at a.
C4_Witness ==
  /\ cfg = GoGraph
  /\ pc = "returned"
  /\ Len(outcome.nodes) = 1
  /\ outcome.final.nodeName = "a"
  /\ outcome.final.next = "stop"

\* C5: without declared steps the node visited next is exactly the hint the
\* node before it emitted, and the run ends when (and, below the visit cap,
\* only when) a node emits no hint; a run whose entry emits no hint returns
\* exactly one node result, named after the entry, which is the final result,
\* and of type member when the entry is a member and no squad bears its name.
C5_HintIsNextNode ==
  Len(Steps) = 0 =>
    /\ \A k \in 1..(Len(nodeResults) - 1) :
         /\ Truthy(nodeResults[k].next)
         /\ nodeResults[k + 1].nodeName = nodeResults[k].next
    /\ (Len(nodeResults) > 0 /\ pc \in { "loop", "await", "failed" })
         => (Truthy(Last(nodeResults).next)
             /\ current = Last(nodeResults).next)
    /\ (Len(nodeResults) > 0 /\ ~Truthy(Last(nodeResults).next))
         => pc \in { "exit", "returned" }
    /\ (pc = "returned" /\ Len(outcome.nodes) < SafetyCap)
         => ~Truthy(outcome.final.next)
    /\ (pc = "returned" /\ ~Truthy(outcome.nodes[1].next))
         => /\ Len(outcome.nodes) = 1
            /\ ~IsSquad(cfg.workflow.entry) => outcome.nodes[1].type = "member"
            /\ outcome.nodes[1].nodeName = cfg.workflow.entry
            /\ outcome.final = outcome.nodes[1]

\* Without steps: a run of two nodes, the second being the first one's hint,
\* that ended because the second emitted no hint.
C5_Witness ==
  /\ Len(Steps) = 0
  /\ pc = "returned"
  /\ Len(outcome.nodes) = 2
  /\ outcome.nodes[1].next = outcome.nodes[2].nodeName
  /\ outcome.final.next = Null

\* The latest result is that of a parallel (sequential) squad, and `turns`
\* still holds the member calls of that visit.
ParallelJoined == Joined /\ Last(nodeResults).mode = "parallel"

SequentialJoined == Joined /\ Last(nodeResults).mode = "sequential"

\* The members of squad n as the configuration declares them.
Declared(n) ==
  cfg.squads[CHOOSE i \in 1..Len(cfg.squads) : cfg.squads[i].name = n].members

\* C6: the outputs recorded for a parallel squad, in its node result and in
\* its context entry, are in member declaration order whatever the order in
\* which the calls completed: the i-th output is labelled with the i-th
\* declared member and is what that member's call returned.
C6_ParallelOrder ==
  ParallelJoined =>
    LET r == Last(nodeResults)
        names == Declared(r.nodeName)
    IN  /\ Len(r.outputs) = Len(names)
        /\ Len(turns) = Len(names)
        /\ \A i \in 1..Len(names) :
             /\ r.outputs[i].member = names[i]
             /\ turns[i].member = names[i]
             /\ r.outputs[i].raw = RawOf(turns[i].callNo)
             /\ SquadOutput(names[i], turns[i].out) = r.outputs[i]
        /\ r.nodeName \in DOMAIN ctx
        /\ ctx[r.nodeName].outputs = r.outputs

\* A parallel squad whose second declared member completed before its first.
C6_Witness ==
  /\ ParallelJoined
  /\ Len(turns) >= 2
  /\ turns[2].rank < turns[1].rank
  /\ turns[1].out.raw # turns[2].out.raw

\* The members of the visit that emitted a non-empty hint.
Hinting == { i \in 1..Len(turns) : Truthy(turns[i].out.next) }

\* C7: the next hint of a parallel squad is the hint of the first member in
\* declaration order that emitted a non-empty hint, none if no member did,
\* whichever member completed first.
C7_ParallelFirstHint ==
  ParallelJoined =>
    Last(nodeResults).next =
      IF Hinting = {} THEN Null ELSE turns[MinOf(Hinting)].out.next

\* Two members emitted different hints and the later declared one completed
\* first; the squad's hint is the earlier declared member's.
C7_Witness ==
  /\ ParallelJoined
  /\ \E i, j \in Hinting :
       /\ i < j
       /\ turns[j].rank < turns[i].rank
       /\ turns[i].out.next # turns[j].out.next
       /\ Last(nodeResults).next = turns[i].out.next

\* `turns` holds the member calls of a sequential squad's visit, under way,
\* failed or joined.
SequentialVisit ==
  \/ pc \in { "await", "failed" } /\ IsSequential(current)
  \/ SequentialJoined

SequentialNode == IF SequentialJoined THEN Last(nodeResults).nodeName ELSE current

\* C8: in a sequential squad the members are invoked one at a time in
\* declaration order, a member only after the one before it has returned; the
\* first is given the run input, each later one exactly the content the
\* member before it emitted.
C8_SequentialChain ==
  SequentialVisit =>
    LET names == Declared(SequentialNode)
    IN  /\ Len(turns) <= Len(names)
        /\ \A j \in 1..Len(turns) :
             /\ turns[j].member = names[j]
             /\ j = 1 => turns[j].input = input
             /\ j > 1 =>
                  /\ turns[j - 1].status = "done"
                  /\ turns[j - 1].callNo < turns[j].callNo
                  /\ turns[j].input = turns[j - 1].out.content
                  /\ turns[j - 1].out.parsed
                       => turns[j].input \in { "", ContentOf(turns[j - 1].callNo) }
                  /\ ~turns[j - 1].out.parsed
                       => turns[j].input = RawOf(turns[j - 1].callNo)
             /\ j < Len(turns) => turns[j].status = "done"

\* The second member of a sequential squad was invoked with the first one's
\* content, which is not the run input.
C8_Witness ==
  /\ SequentialVisit
  /\ Len(turns) >= 2
  /\ turns[2].input = turns[1].out.content
  /\ turns[2].input # input

\* C9: the next hint of a sequential squad is the hint of its last declared
\* member, also when an earlier member emitted a hint and the last one none;
\* that of a parallel squad is the first non-empty hint among its outputs.
C9_SquadHintAsymmetry ==
  \A k \in 1..Len(nodeResults) :
    LET r == nodeResults[k]
        hinted == { i \in 1..Len(r.outputs) : Truthy(r.outputs[i].next) }
    IN  /\ r.mode = "sequential" =>
             /\ Len(r.outputs) = Len(Declared(r.nodeName))
             /\ r.outputs[Len(r.outputs)].member =
                  Declared(r.nodeName)[Len(r.outputs)]
             /\ r.next = r.outputs[Len(r.outputs)].next
        /\ r.mode = "parallel" =>
             r.next = IF hinted = {} THEN Null
                      ELSE r.outputs[MinOf(hinted)].next

\* A sequential squad whose first member emitted a hint and whose last
\* member emitted none: the squad's hint is none.
C9_Witness ==
  \E k \in 1..Len(nodeResults) :
    /\ nodeResults[k].mode = "sequential"
    /\ Truthy(nodeResults[k].outputs[1].next)
    /\ nodeResults[k].outputs[Len(nodeResults[k].outputs)].next = Null
    /\ nodeResults[k].next = Null

\* A member call of the parallel squad being visited has failed.
FailedInParallel ==
  /\ IsParallel(current)
  /\ \E i \in 1..Len(turns) : turns[i].status = "failed"

\* The context holds, for exactly the nodes with a recorded result, the
\* entry of their latest result.
CtxOfResults ==
  /\ DOMAIN ctx = { nodeResults[k].nodeName : k \in 1..Len(nodeResults) }
  /\ \A k \in 1..Len(nodeResults) :
       (\A l \in (k + 1)..Len(nodeResults) :
           nodeResults[l].nodeName # nodeResults[k].nodeName)
       => ctx[nodeResults[k].nodeName] = CtxEntry(nodeResults[k])

\* C10: when a member of a parallel squad fails, the run fails: no result of
\* the squad is appended, no context entry is recorded for the visit, no run
\* record is returned, and the run visits no further node.
C10_ParallelFailFast ==
  /\ [](FailedInParallel =>
          /\ pc = "failed"
          /\ outcome.kind = "failed"
          /\ outcome.nodes = << >>
          /\ Len(nodeResults) = safetyCounter - 1
          /\ CtxOfResults)
  /\ [][FailedInParallel =>
          \/ runs' = runs + 1
          \/ UNCHANGED << pc, outcome, runVars, turns >>]_vars

\* A parallel squad failed on one member after another had returned.
C10_Witness ==
  /\ FailedInParallel
  /\ \E i \in 1..Len(turns) : turns[i].status = "done"
  /\ pc = "failed"

SquadNames(c) == { c.squads[i].name : i \in 1..Len(c.squads) }

\* The names the configuration declares as nodes: its members and its squads.
DeclaredNodes(c) == MemberNames(c) \cup SquadNames(c)

\* Validation gets as far as the check of the entry.
ReachesEntryCheck(c) == FirstMissing(c, 1) = Null /\ Len(c.members) > 0

\* C11: validation fails with the unknown-entry error exactly when
\* workflow.entry names neither a declared member nor a declared squad; with
\* a declared squad as entry validation passes and the run starts at it.
C11_EntryMemberOrSquad ==
  /\ (outcome.error = ErrEntry \/ loadError = ErrEntry)
       => cfg.workflow.entry \notin DeclaredNodes(cfg)
  /\ ( /\ ReachesEntryCheck(cfg)
       /\ cfg.workflow.entry \notin DeclaredNodes(cfg) )
     => /\ pc \in { "idle", "failed" }
        /\ pc = "failed" => outcome.error = ErrEntry
        /\ loadError \in { Null, ErrEntry }
  /\ ( /\ ReachesEntryCheck(cfg)
       /\ cfg.workflow.entry \in SquadNames(cfg)
       /\ Len(nodeResults) > 0 )
     => nodeResults[1].nodeName = cfg.workflow.entry

\* The configuration errors C12 names: a required field is absent, the entry
\* is unknown, or a member names a tool the registry does not hold.
HasConfigError(c) ==
  \/ FirstMissing(c, 1) # Null
  \/ c.workflow.entry \notin DeclaredNodes(c)
  \/ \E i \in 1..Len(c.members) : ~ToolsKnown(c.members[i])

\* C12: on an engine whose configuration has a configuration error no member
\* is invoked and no LLM call is issued, whatever calls are made on it, also
\* after an earlier call failed during load.
C12_NoCallOnConfigError ==
  HasConfigError(cfg) => nCalls = 0 /\ turns = << >>

\* C13: in a loaded engine no name is both a member's and a squad's; a
\* configuration in which a squad bears the name of a member is rejected, so
\* that a node name denotes one member or one squad.
C13_NodeNamesUnique ==
  /\ DOMAIN members \cap DOMAIN squads = {}
  /\ MemberNames(cfg) \cap SquadNames(cfg) # {}
       => /\ pc \in { "idle", "failed" }
          /\ loadError # Ok
          /\ nCalls = 0

\* C14: every member name a squad of the loaded engine lists is a declared
\* member, so that no visit of a squad starts some of its members and then
\* fails on an undeclared one.
C14_SquadMembersDeclared ==
  /\ \A n \in DOMAIN squads : Range(squads[n].members) \subseteq DOMAIN members
  /\ outcome.error # ErrUnknownSquadMember

\* An earlier load of the engine went through: its observer, all its runners
\* and all its squads are in place.
AlreadyLoaded ==
  /\ observer.exists
  /\ Len(cfg.members) > 0
  /\ DOMAIN members = MemberNames(cfg)
  /\ DOMAIN squads = SquadNames(cfg)

\* C15: load() on an already loaded engine is a no-op: the member runners,
\* the recorded squads, the memory buckets and the observer's event list are
\* after the call what they were before it.
C15_LoadIdempotent ==
  [][ (LoadCall /\ AlreadyLoaded)
        => /\ members' = members
           /\ squads' = squads
           /\ memory' = memory
           /\ events' = events ]_vars

\* What an engine holds apart from its observer, the events it recorded and
\* the Markdown run reports it wrote.
Functional(s) ==
  [members |-> s.members, squads |-> s.squads, memory |-> s.memory,
   pc |-> s.pc, runId |-> s.runId, input |-> s.input, ctx |-> s.ctx,
   nodeResults |-> s.nodeResults, current |-> s.current,
   safetyCounter |-> s.safetyCounter, turns |-> s.turns,
   orphans |-> s.orphans, outcome |-> s.outcome, nCalls |-> s.nCalls,
   runs |-> s.runs, loadError |-> s.loadError, suite |-> s.suite]

\* With observability disabled an engine records nothing and writes no report.
Silent(s) ==
  ~s.cfg.observability.enabled => s.events = << >> /\ s.reports = << >>

\* C16: two engines that differ in observability.enabled only, given the same
\* calls and the same LLM answers in the same order, hold the same members,
\* squads and memory buckets, are at the same point of the same run and give
\* their callers the same run record or error; the second engine can always
\* take the step the first one took; the engine with observability disabled
\* has an empty event list throughout.
C16_ObservabilityNeutral ==
  /\ twin.phase = "first" => Functional(EngineState) = Functional(twin.parked)
  /\ twin.phase = "second" => ENABLED EngineStep
  /\ twin.phase # "none" => Silent(EngineState) /\ Silent(twin.parked)

\* Both engines returned the same record of a run through a squad, one
\* having recorded its events and the other none.
C16_Witness ==
  /\ twin.phase = "first"
  /\ pc = "returned"
  /\ twin.parked.outcome = outcome
  /\ Len(outcome.nodes) >= 2
  /\ outcome.final.type = "squad"
  /\ twin.parked.memory = memory
  /\ memory # NoMap
  /\ { Len(events), Len(twin.parked.events) } = { 0, Len(events) + Len(twin.parked.events) }
  /\ Len(events) + Len(twin.parked.events) > 0

IsPrefix(a, b) == Len(a) <= Len(b) /\ SubSeq(b, 1, Len(a)) = a

\* Turn i is begun in this step.
Begun(i) == i > Len(turns) \/ turns'[i].callNo # turns[i].callNo

\* Turn i completes in this step.
TurnCompletes(i) ==
  /\ i \in 1..Len(turns')
  /\ turns[i].status = "pending"
  /\ turns'[i].status = "done"

\* C17: memory is append-only: in every step of the engine each bucket's
\* contents before the step are a prefix of its contents after it; no bucket
\* is ever kept under an empty id, and a turn of a member with an empty
\* memoryId changes no bucket; a turn is begun with the empty history when
\* its member's memoryId is empty or no bucket of that id exists yet.
C17_MemoryAppendOnly ==
  /\ [][ \A b \in DOMAIN memory :
           b \in DOMAIN memory' /\ IsPrefix(memory[b], memory'[b]) ]_vars
  /\ [](\A b \in DOMAIN memory : Truthy(b))
  /\ [][ \A i \in 1..Len(turns) :
           (TurnCompletes(i) /\ ~Truthy(turns[i].memoryId))
             => memory' = memory ]_vars
  /\ [][ \A i \in 1..Len(turns') :
           (Begun(i) /\ turns'[i].status = "pending")
             => turns'[i].memSeen =
                  IF /\ Truthy(turns'[i].memoryId)
                     /\ turns'[i].memoryId \in DOMAIN memory
                  THEN memory[turns'[i].memoryId]
                  ELSE << >> ]_vars

\* A bucket was appended to by two turns, and turns of members with an empty
\* memoryId have completed.
C17_Witness ==
  /\ \E b \in DOMAIN memory : Len(memory[b]) >= 4
  /\ \E i \in 1..Len(turns) :
       turns[i].status = "done" /\ turns[i].memoryId = Null
  /\ \E i \in 1..Len(turns) :
       turns[i].status = "done" /\ turns[i].memoryId = ""

\* The two entries a completed turn t with output out leaves in its bucket.
Exchange(t, out) ==
  << Message("user", t.input), Message("assistant", out.content) >>

\* Bucket b is after the step what it was before, extended by entries.
Extended(b, entries) ==
  /\ DOMAIN memory' = DOMAIN memory \cup { b }
  /\ memory'[b] = MemoryGet(memory, b) \o entries
  /\ \A o \in DOMAIN memory : o # b => memory'[o] = memory[o]

\* Turn i fails in this step.
TurnFails(i) ==
  /\ i \in 1..Len(turns')
  /\ turns[i].status = "pending"
  /\ turns'[i].status = "failed"

\* The content a turn gives is the parsed content of the answer to its call.
ParsedContent(t) ==
  IF t.out.parsed THEN t.out.content \in { ContentOf(t.callNo), "" }
  ELSE t.out.content = RawOf(t.callNo)

\* C18: a member turn that completes, with tools or without, appends to the
\* bucket named by the member's memoryId exactly two entries, {user, the
\* input the member was given} then {assistant, the parsed content}, and
\* changes no other bucket; a turn whose capability fails changes no bucket;
\* no other step of the engine changes a bucket.
C18_TurnAppendsExchange ==
  /\ [][ \A i \in 1..Len(turns) :
           (TurnCompletes(i) /\ Truthy(turns[i].memoryId))
             => /\ Extended(turns[i].memoryId, Exchange(turns[i], turns'[i].out))
                /\ ParsedContent(turns'[i])
                /\ turns'[i].input = turns[i].input ]_vars
  /\ [][ \A i \in 1..Len(turns) : TurnFails(i) => memory' = memory ]_vars
  /\ [][ memory' # memory
           => \/ \E i \in 1..Len(turns) : TurnCompletes(i)
              \/ \E j \in 1..Len(orphans) : \E c \in { "", RawOf(orphans[j].callNo),
                                                        ContentOf(orphans[j].callNo) } :
                   /\ orphans' = RemoveAt(orphans, j)
                   /\ Extended(orphans[j].memoryId,
                               << Message("user", orphans[j].input),
                                  Message("assistant", c) >>) ]_vars

\* Of one squad visit a member with tools and a member without have completed
\* their turns, and both exchanges are in their buckets.
C18_Witness ==
  /\ \E i \in 1..Len(turns) :
       /\ turns[i].status = "done"
       /\ turns[i].hasTools
       /\ Truthy(turns[i].memoryId)
       /\ \E k \in 1..Len(memory[turns[i].memoryId]) - 1 :
            SubSeq(memory[turns[i].memoryId], k, k + 1)
              = Exchange(turns[i], turns[i].out)
  /\ \E i \in 1..Len(turns) :
       /\ turns[i].status = "done"
       /\ ~turns[i].hasTools
       /\ Truthy(turns[i].memoryId)
       /\ \E k \in 1..Len(memory[turns[i].memoryId]) - 1 :
            SubSeq(memory[turns[i].memoryId], k, k + 1)
              = Exchange(turns[i], turns[i].out)

\* The exchange of turn t is in its bucket.
InBucket(t) ==
  \E k \in 1..Len(MemoryGet(memory, t.memoryId)) - 1 :
    SubSeq(memory[t.memoryId], k, k + 1) = Exchange(t, t.out)

\* The "after" event of turn t is on record.
AfterOnRecord(t) ==
  \E k \in 1..Len(events) : events[k] = AfterEvent(t, t.out)

\* C19: a member whose raw text is not a JSON object completes its turn all
\* the same; its StructuredOutput is {content: the raw text, no hint, no
\* actions}, the exchange is appended to its bucket and the "after" event is
\* recorded, and the edge out of a member node is resolved as without a hint.
C19_MalformedOutputDegrades ==
  \A i \in 1..Len(turns) :
    (turns[i].status = "done" /\ turns[i].answer # "json")
      => /\ turns[i].out.content = turns[i].out.raw
         /\ turns[i].out.raw = RawOf(turns[i].callNo)
         /\ turns[i].out.next = Null
         /\ turns[i].out.actions = << >>
         /\ pc = "await"
              => /\ Truthy(turns[i].memoryId) => InBucket(turns[i])
                 /\ observer.enabled => AfterOnRecord(turns[i])
         /\ (pc \in { "loop", "exit" } /\ Len(turns) = 1
                /\ ~IsSquad(Last(nodeResults).nodeName))
              => LET nextNode == ResolveNext(cfg.workflow.steps,
                                             Last(nodeResults).nodeName, Null)
                 IN  IF Truthy(nextNode)
                     THEN pc = "loop" /\ current = nextNode
                     ELSE pc = "exit"

\* The members a visit of nodeName concerns, in the order it invokes them.
Concerned(nodeName) ==
  IF IsSquad(nodeName) THEN squads[nodeName].members ELSE << nodeName >>

\* The turns of the visit under way before the step.
Underway == IF pc = "await" THEN Len(turns) ELSE 0

\* C20: a member turn whose LLM or tool capability fails makes the run fail
\* at once with that failure and no run record, and a failed run does
\* nothing more; no call is issued again: while a node is visited the members
\* it concerns have been invoked in order, each at most once and with one
\* call, and when the visit completes each exactly once.
C20_FailureFatalNoRetry ==
  /\ [][ \A i \in 1..Len(turns) :
           TurnFails(i) => /\ pc' = "failed"
                           /\ outcome' = Thrown(ErrCapability)
                           /\ nodeResults' = nodeResults
                           /\ nCalls' = nCalls ]_vars
  /\ [][ pc = "failed" => \/ runs' = runs + 1
                          \/ UNCHANGED << pc, outcome, nCalls, turns,
                                          nodeResults >> ]_vars
  /\ [][ pc = "await"
           => /\ Len(turns') >= Len(turns)
              /\ \A i \in 1..Len(turns) :
                   /\ turns'[i].callNo = turns[i].callNo
                   /\ turns'[i].member = turns[i].member
                   /\ turns[i].status # "pending" => turns'[i] = turns[i] ]_vars
  /\ [][ nCalls' # nCalls
           => nCalls' - nCalls = (Len(turns') - Underway)
                                   + (Len(orphans') - Len(orphans)) ]_vars
  /\ [][ Len(nodeResults') > Len(nodeResults)
           => /\ Len(turns) = Len(Concerned(current))
              /\ \A i \in 1..Len(turns) : turns[i].status = "done"
              /\ turns' = turns
              /\ nCalls' = nCalls ]_vars
  /\ [](pc = "await"
          => /\ Len(turns) <= Len(Concerned(current))
             /\ \A i \in 1..Len(turns) :
                  /\ turns[i].member = Concerned(current)[i]
                  /\ turns[i].callNo = nCalls - Len(turns) + i)

\* After a first node was visited, the tool capability of a squad member
\* failed: the run has failed and holds the results of one visit only.
C20_Witness ==
  /\ pc = "failed"
  /\ outcome = Thrown(ErrCapability)
  /\ Len(nodeResults) = 1
  /\ \E i \in 1..Len(turns) : turns[i].status = "failed" /\ turns[i].hasTools
  /\ \E i \in 1..Len(turns) : turns[i].status = "done"

\* The next node as C21 words it: the hint when no step is declared, else
\* the `to` of the chosen step.
NamedNext(steps, n, h) ==
  IF Len(steps) = 0 THEN (IF Truthy(h) THEN h ELSE Null)
  ELSE ClaimedNext(steps, n, h)

\* The node named after the latest result.
AfterLast ==
  NamedNext(Steps, Last(nodeResults).nodeName, Last(nodeResults).next)

\* n names a node the configuration does not declare.
Undeclared(n) == Truthy(n) /\ n \notin DeclaredNodes(cfg)

\* C21: when the next node resolved after a visit names neither a declared
\* member nor a declared squad, the run does not end there: it goes on to
\* visit that node, and the visit fails the run with the unknown-node error,
\* invoking no member and keeping the results produced so far; a run that
\* failed with the unknown-node error has no run record.
C21_UnknownNextFails ==
  /\ []((Joined /\ Undeclared(AfterLast) /\ Len(nodeResults) < SafetyCap)
          => pc = "loop" /\ current = AfterLast)
  /\ [][ (pc = "loop" /\ Len(nodeResults) > 0 /\ Undeclared(current)
            /\ pc' # "loop")
           => /\ pc' = "failed"
              /\ outcome' = Thrown(ErrUnknownNode)
              /\ nodeResults' = nodeResults
              /\ nCalls' = nCalls
              /\ turns' = << >> ]_vars
  /\ [](outcome.error = ErrUnknownNode
          => /\ pc = "failed"
             /\ outcome.kind = "failed"
             /\ outcome.nodes = << >>
             /\ Len(nodeResults) = safetyCounter - 1
             /\ current \notin DOMAIN members \cup DOMAIN squads)

\* With steps declared, two nodes were visited and the step out of the
\* second led to an undeclared node: the run failed there.
C21_Witness ==
  /\ Len(Steps) > 0
  /\ pc = "failed"
  /\ outcome.error = ErrUnknownNode
  /\ Len(nodeResults) = 2
  /\ Undeclared(current)
  /\ current = AfterLast

\* A runTests call is made in this step.
TestsCalled == suite'.calls = suite.calls + 1

\* The configuration's tests are absent or empty.
Untested == "tests" \in cfg.missing \/ Len(cfg.tests) = 0

\* C22: runTests on a configuration whose tests are absent or empty fails
\* with the no-tests error; the call runs no graph (no load, no event, no
\* member invocation, no memory entry) and writes no report, and such an
\* engine never holds a test result or a written test report.
C22_NoTestsFails ==
  /\ [][ (TestsCalled /\ Untested)
           => /\ pc' = "failed"
              /\ outcome' = Thrown(ErrNoTests)
              /\ nodeResults' = << >>
              /\ UNCHANGED << members, squads, observer, events, memory,
                              nCalls, orphans, reports >>
              /\ suite'.written = suite.written
              /\ suite'.results = << >> ]_vars
  /\ [](Untested
          => /\ suite.state \in { "none", "failed" }
             /\ suite.results = << >>
             /\ suite.written = << >>)
  /\ [](outcome.error = ErrNoTests => Untested /\ pc = "failed")

\* runTests failed for want of tests on an engine that had run its graph
\* before: the calls and events of that run are all there is.
C22_Witness ==
  /\ outcome.error = ErrNoTests
  /\ Len(cfg.tests) = 0
  /\ "tests" \notin cfg.missing
  /\ suite.calls = 1
  /\ runs = 2
  /\ nCalls = 1
  /\ events # << >>

\* The characters v occur in t one after the other, as they are.
OccursIn(v, t) ==
  \E i \in 1..(Len(t) + 1) : \E j \in 0..Len(t) : SubSeq(t, i, j) = v

\* The assertions of kind `contains` that state an expected value, among
\* those evaluated for result r.
Contains(r) ==
  { k \in 1..Len(r.assertions) :
      r.assertions[k].type = "contains" /\ r.assertions[k].value # Null }

\* C23: a `contains` assertion passes if and only if the characters of the
\* expected value occur, in order, adjacent and in the same case, in the text
\* recorded for its target; on a run whose only node gave the content
\* "an edge" the expected values "edge" and "n e" pass and "Edge" fails.
C23_ContainsIsSubstring ==
  \A n \in 1..Len(suite.results) :
    LET r == suite.results[n]
    IN  /\ \A k \in Contains(r) :
             r.assertions[k].passed
               <=> OccursIn(Chars(r.assertions[k].value),
                            r.assertions[k].actualSnippet)
        /\ (Len(r.run.nodes) = 1 /\ r.run.final.type = "member")
             => \A k \in Contains(r) :
                  r.assertions[k].target = r.run.final.nodeName
                    => ( /\ r.run.final.output.content = "t1"
                            => (r.assertions[k].passed
                                  <=> r.assertions[k].value \in { "edge", "n e" })
                         /\ r.run.final.output.content = "t2"
                            => (r.assertions[k].passed
                                  <=> r.assertions[k].value = "Edge") )

\* runTests returned: on the content "an edge" the first test's assertion
\* expecting "edge" passed and the one expecting "Edge" failed, and on the
\* content "an Edge" the second test's assertion expecting "n e" failed.
C23_Witness ==
  /\ suite.state = "returned"
  /\ Len(suite.results) = 2
  /\ suite.results[1].run.final.output.content = "t1"
  /\ suite.results[1].assertions[1].passed
  /\ ~suite.results[1].assertions[3].passed
  /\ suite.results[2].run.final.output.content = "t2"
  /\ ~suite.results[2].assertions[4].passed

\* Where member m was executed in a run: << i, 0 >> as node i, << i, j >> as
\* the j-th member of the squad that is node i.
Executions(run, m) ==
  { << i, 0 >> : i \in { n \in 1..Len(run.nodes) :
                          run.nodes[n].type = "member"
                          /\ run.nodes[n].nodeName = m } }
  \cup
  UNION { { << i, j >> : j \in { l \in 1..Len(run.nodes[i].outputs) :
                                  run.nodes[i].outputs[l].member = m } } :
          i \in 1..Len(run.nodes) }

\* The text of an execution as C24 words it: the content, or the raw text
\* when the content is empty.
ClaimedText(run, e) ==
  LET o == IF e[2] = 0 THEN run.nodes[e[1]].output
           ELSE run.nodes[e[1]].outputs[e[2]]
  IN  IF Truthy(o.content) THEN o.content ELSE o.raw

\* C24: the text an assertion is evaluated against is, for a target member
\* executed once in the run, as a node of its own or inside a squad, that
\* execution's content, or its raw text when the content is empty; a target
\* that is no executed member (a squad's name, say) has the empty text.
C24_FlatTextMapping ==
  \A n \in 1..Len(suite.results) :
    LET r == suite.results[n]
    IN  \A k \in 1..Len(r.assertions) :
          LET execs == Executions(r.run, r.assertions[k].target)
          IN  r.assertions[k].type = "contains"
                => /\ execs = {} => r.assertions[k].actualSnippet = << >>
                   /\ Cardinality(execs) = 1
                        => \A e \in execs :
                             r.assertions[k].actualSnippet
                               = Chars(ClaimedText(r.run, e))

\* Result r of a test answers assertion k of test t, which is of an unknown
\* kind when it is not `contains`.
Answers(r, t, k) ==
  /\ r.assertions[k].type = t.asserts[k].type
  /\ r.assertions[k].target = t.asserts[k].target
  /\ r.assertions[k].value = t.asserts[k].value
  /\ t.asserts[k].type # "contains"
       => ~r.assertions[k].passed /\ r.assertions[k].error = ErrUnknownAssertion
  /\ t.asserts[k].type = "contains" => r.assertions[k].error = Null

\* C25: an assertion of a kind other than `contains` is recorded as failed
\* with the unknown-assertion-type marker and fails no call: the results
\* runTests collects are those of the declared tests in order, each with one
\* assertion result per declared assertion in order; collecting a result
\* never fails the call, and when runTests returns there is one result per
\* declared test.
C25_UnknownKindRecorded ==
  /\ [](\A n \in 1..Len(suite.results) :
          /\ n <= Len(cfg.tests)
          /\ suite.results[n].test = cfg.tests[n]
          /\ Len(suite.results[n].assertions) = Len(cfg.tests[n].asserts)
          /\ \A k \in 1..Len(cfg.tests[n].asserts) :
               Answers(suite.results[n], cfg.tests[n], k))
  /\ [](suite.state = "returned" => Len(suite.results) = Len(cfg.tests))
  /\ [][ Len(suite'.results) > Len(suite.results)
           => /\ pc' # "failed"
              /\ SubSeq(suite'.results, 1, Len(suite.results)) = suite.results
              /\ Len(suite'.results) = Len(suite.results) + 1 ]_vars

\* runTests returned the results of two tests which both hold assertions of
\* unknown kinds, recorded as failed between the `contains` assertions.
C25_Witness ==
  /\ suite.state = "returned"
  /\ Len(suite.results) = 2
  /\ suite.results[1].assertions[2].error = ErrUnknownAssertion
  /\ suite.results[1].assertions[1].passed
  /\ suite.results[2].assertions[1].error = ErrUnknownAssertion
  /\ suite.results[2].assertions[3].passed
  /\ Len(suite.written) = 1

\* The events a run recorded itself, from its run_start on: evs from its last
\* run_start on, without the events of calls left over from rejected runs.
LastStart(evs) ==
  CHOOSE p \in 1..Len(evs) :
    /\ evs[p].type = "run_start"
    /\ \A q \in (p + 1)..Len(evs) : evs[q].type # "run_start"

OwnEvents(evs) ==
  SelectSeq(SubSeq(evs, LastStart(evs), Len(evs)), LAMBDA ev : ~ev.stray)

Marks == { "run_start", "node_start", "node_end", "run_end" }

\* The run and node events among evs, each as << type, runId, node name >>.
Skeleton(evs) ==
  LET marks == SelectSeq(evs, LAMBDA ev : ev.type \in Marks)
  IN  [ p \in 1..Len(marks) |->
          << marks[p].type, marks[p].runId, marks[p].nodeName >> ]

\* One run_start, a node_start and a node_end per node of the record in visit
\* order, one run_end carrying the final node's name.
Brackets(rec) ==
  [ p \in 1..(2 * Len(rec.nodes) + 2) |->
      IF p = 1 THEN << "run_start", rec.runId, Null >>
      ELSE IF p = 2 * Len(rec.nodes) + 2
      THEN << "run_end", rec.runId, Last(rec.nodes).nodeName >>
      ELSE IF p % 2 = 0 THEN << "node_start", rec.runId, rec.nodes[p \div 2].nodeName >>
      ELSE << "node_end", rec.runId, rec.nodes[p \div 2].nodeName >> ]

\* The members node result r reports on.
Reported(r) ==
  IF r.type = "squad" THEN { r.outputs[j].member : j \in 1..Len(r.outputs) }
  ELSE { r.nodeName }

\* The run or node event that precedes position p of evs most closely.
MarkBefore(evs, p) ==
  CHOOSE q \in 1..(p - 1) :
    /\ evs[q].type \in Marks
    /\ \A l \in (q + 1)..(p - 1) : evs[l].type \notin Marks

\* How many node_start events evs holds up to position p.
NodesUpTo(evs, p) ==
  Cardinality({ q \in 1..p : evs[q].type = "node_start" })

\* Every member_message of evs, and every tool event, lies inside the bracket
\* of a node of the record, after its node_start, and is of a member that
\* node reports on;
\* inside the bracket of each node every member reported on has one message
\* before and one message after its turn.
MessagesInside(evs, rec) ==
  /\ \A p \in 1..Len(evs) :
       evs[p].type \notin Marks
         => /\ p > 1
            /\ evs[MarkBefore(evs, p)].type = "node_start"
            /\ evs[p].memberName \in Reported(rec.nodes[NodesUpTo(evs, p)])
  /\ \A n \in 1..Len(rec.nodes) :
       LET inside == { p \in 1..Len(evs) :
                         /\ evs[p].type = "member_message"
                         /\ NodesUpTo(evs, p) = n }
       IN  \A ph \in { "before", "after" } :
             Cardinality({ p \in inside :
                             IF ph = "after" THEN evs[p].phase = "after"
                             ELSE evs[p].phase # "after" })
               = IF rec.nodes[n].type = "squad" THEN Len(rec.nodes[n].outputs)
                 ELSE 1

\* C26: with observability enabled, when a run returns its record the events
\* it recorded are one run_start, then per visited node in visit order a
\* node_start, the member_message events of that node's members and the
\* node_end of the same node, then one run_end carrying the final node's
\* name: brackets neither nest nor overlap and each node_start has its
\* node_end.
C26_EventOrder ==
  [][ (pc # "returned" /\ pc' = "returned" /\ observer.enabled)
        => /\ Skeleton(OwnEvents(events')) = Brackets(outcome')
           /\ MessagesInside(OwnEvents(events'), outcome')
           /\ outcome'.final = Last(outcome'.nodes) ]_vars

\* A run through two nodes, the second a squad, has returned and the list
\* holds at least ten events of it, the last one its run_end.
C26_Witness ==
  /\ pc = "returned"
  /\ observer.enabled
  /\ Len(outcome.nodes) = 2
  /\ outcome.final.type = "squad"
  /\ Len(OwnEvents(events)) >= 10
  /\ Last(events).type = "run_end"

\* The calls at a place after the step.
CallsAfter(place) == IF place = "run" THEN turns' ELSE orphans'

\* Call i at place is the same call before and after the step.
SameCall(place, i) ==
  /\ i \in 1..Len(CallsAt(place))
  /\ i \in 1..Len(CallsAfter(place))
  /\ CallsAfter(place)[i].callNo = CallsAt(place)[i].callNo
  /\ place = "run" => pc = "await"

\* Whether what call t records reaches the event list.
Heard(t) == observer.enabled /\ ~t.stale

\* Event ev is a tool event of the given type for member m and tool name.
IsToolEvent(ev, type, m, name) ==
  ev.type = type /\ ev.memberName = m /\ ev.toolName = name

\* How many tool events of a type the first p events hold for m and name.
ToolEvents(evs, p, type, m, name) ==
  Cardinality({ q \in 1..p : IsToolEvent(evs[q], type, m, name) })

\* The tool_call events for m and name that no tool_result has followed.
Unmatched(evs, m, name) ==
  ToolEvents(evs, Len(evs), "tool_call", m, name)
    - ToolEvents(evs, Len(evs), "tool_result", m, name)

\* The invocations of tool name by member m that have neither returned nor
\* failed, among those whose events reach the list.
InFlight(running, ts, os, m, name) ==
  Cardinality({ i \in 1..Len(ts) :
                  /\ running
                  /\ ts[i].status = "pending"
                  /\ ts[i].member = m /\ ts[i].tool = name })
    + Cardinality({ j \in 1..Len(os) :
                      /\ ~os[j].stale
                      /\ os[j].member = m /\ os[j].tool = name })

\* In this step an invocation of tool name by member m fails.
ToolFails(m, name) ==
  \/ \E i \in 1..Len(turns) :
       /\ pc = "await"
       /\ turns[i].status = "pending"
       /\ turns[i].member = m /\ turns[i].tool = name
       /\ turns'[i].status = "failed"
  \/ \E j \in 1..Len(orphans) :
       /\ orphans[j].member = m /\ orphans[j].tool = name
       /\ orphans' = RemoveAt(orphans, j)

\* C27: invoking a wrapped tool records a tool_call event (when events are
\* recorded at all) before the tool is invoked, and a tool_result event with
\* the tool's result once it returns, and the agent loop receives that very
\* result; when the tool fails no event is recorded and the failure rejects
\* the member's call and the awaiting run.  Hence every tool_result on the
\* list is preceded by a tool_call of the same member and tool that no other
\* tool_result answers, and a tool_call without tool_result is that of an
\* invocation still under way or of one that failed.
C27_WrappedToolEvents ==
  /\ [][ \A place \in Places : \A i \in 1..Len(CallsAt(place)) :
           LET t == CallsAt(place)[i] IN
           SameCall(place, i) =>
             LET u == CallsAfter(place)[i] IN
             /\ (t.tool = Null /\ u.tool # Null)
                  => /\ u.tool \in Range(members[t.member].tools)
                     /\ u.seen = t.seen
                     /\ u.status = "pending"
                     /\ IF Heard(t)
                        THEN /\ Len(events') = Len(events) + 1
                             /\ IsToolEvent(Last(events'), "tool_call",
                                            t.member, u.tool)
                             /\ Last(events').input = ToolQuery
                        ELSE events' = events
             /\ (t.tool # Null /\ u.tool = Null)
                  => /\ u.seen = Append(t.seen, ToolOutput(t.tool))
                     /\ u.status = "pending"
                     /\ IF Heard(t)
                        THEN /\ Len(events') = Len(events) + 1
                             /\ IsToolEvent(Last(events'), "tool_result",
                                            t.member, t.tool)
                             /\ Last(events').result = ToolOutput(t.tool)
                        ELSE events' = events
             /\ (t.tool # Null /\ t.status = "pending" /\ u.status = "failed")
                  => /\ events' = events
                     /\ u.seen = t.seen
                     /\ place = "run"
                          => pc' = "failed" /\ outcome' = Thrown(ErrCapability) ]_vars
  /\ [](\A p \in 1..Len(events) :
         events[p].type = "tool_result"
           => ToolEvents(events, p - 1, "tool_call",
                         events[p].memberName, events[p].toolName)
                > ToolEvents(events, p - 1, "tool_result",
                             events[p].memberName, events[p].toolName))
  /\ [](\A m \in MemberNames(cfg) : \A name \in BuiltinTools :
         observer.enabled
           => Unmatched(events, m, name)
                >= InFlight(pc = "await", turns, orphans, m, name))
  /\ [][ \A m \in MemberNames(cfg) : \A name \in BuiltinTools :
           (observer.enabled
            /\ Unmatched(events', m, name)
                 - InFlight(pc' = "await", turns', orphans', m, name)
               > Unmatched(events, m, name)
                 - InFlight(pc = "await", turns, orphans, m, name))
             => ToolFails(m, name) /\ events' = events ]_vars

\* A member has invoked one tool, which returned, and a second one, which
\* failed: the list holds two tool_call events and one tool_result, the run
\* has failed.
C27_Witness ==
  /\ pc = "failed"
  /\ outcome = Thrown(ErrCapability)
  /\ Len(events) >= 3
  /\ Last(events).type = "tool_call"
  /\ \E i \in 1..Len(turns) :
       /\ turns[i].status = "failed"
       /\ turns[i].tool # Null
       /\ Len(turns[i].seen) = 1
       /\ Unmatched(events, turns[i].member, turns[i].tool) = 1
       /\ \E p \in 1..Len(events) : events[p].type = "tool_result"

\* C28: a member declared without a memoryId uses the bucket "shared": the
\* turn it begins without tools reads the entries of bucket "shared" as its
\* history, and the turn it completes extends bucket "shared" by the exchange.
C28_DefaultBucketShared ==
  [][ \A i \in 1..Len(turns') :
        turns'[i].memoryId = Null
          => /\ (Begun(i) /\ ~turns'[i].hasTools)
                  => turns'[i].memSeen = MemoryGet(memory, "shared")
             /\ (i \in 1..Len(turns) /\ TurnCompletes(i))
                  => Extended("shared", Exchange(turns[i], turns'[i].out)) ]_vars

\* A run of the graph starts in this step: by runOnce, or as the first or a
\* later test of runTests.
RunStarts == pc \notin Running /\ pc' = "loop"

\* C29: the engine's buckets outlast its runs and the state of a run is its
\* own: the step that starts a run, by runOnce or for a test of runTests,
\* leaves every bucket as it is and gives the run an empty context mapping
\* and an empty sequence of node results; a bucket changes only when a
\* member's call completes; the record a run has returned, and the records of
\* the tests already run in a runTests call, stay as they are while later
\* runs go on.
C29_BucketsPersistRunStateFresh ==
  /\ [][ RunStarts => /\ memory' = memory
                      /\ ctx' = NoMap
                      /\ nodeResults' = << >>
                      /\ turns' = << >> ]_vars
  /\ [][ memory' # memory
           => \/ \E i \in 1..Len(turns) : TurnCompletes(i)
              \/ Len(orphans') < Len(orphans) ]_vars
  /\ [][ (pc = "returned" /\ pc' = "returned") => outcome' = outcome ]_vars
  /\ [][ suite'.calls = suite.calls
           => /\ Len(suite'.results) >= Len(suite.results)
              /\ \A k \in 1..Len(suite.results) :
                   suite'.results[k] = suite.results[k] ]_vars

\* The second test of a runTests call has started after the first returned
\* its record: the buckets hold what the first test's members appended, the
\* context mapping and the sequence of node results are empty.
C29_Witness ==
  /\ suite.state = "running"
  /\ Len(suite.results) = 1
  /\ Len(suite.results[1].run.nodes) > 0
  /\ pc = "loop"
  /\ nodeResults = << >>
  /\ ctx = NoMap
  /\ \E b \in DOMAIN memory : Len(memory[b]) >= 2

\* One of version, llm, members and workflow is absent from configuration c.
LacksField(c) ==
  \E f \in { "version", "llm", "members", "workflow" } : f \in c.missing

\* Configuration c has all four fields and its member list is empty.
EmptyMemberList(c) == ~LacksField(c) /\ Len(c.members) = 0

\* The error C30 names for configuration c.
ValidationError(c) ==
  IF LacksField(c) THEN ErrMissingField ELSE ErrNoMembers

\* C30: a configuration that lacks version, llm, members or workflow is
\* rejected with the missing-field error and one with all four fields and an
\* empty member list with the empty-member-list error, by load and by every
\* run (runTests on a configuration without tests fails before, with its own
\* error); nothing is built: whatever calls are made, the engine holds no
\* member runner, no squad and no observer, records no event and issues no
\* call.
C30_ValidationBeforeBuild ==
  /\ []((LacksField(cfg) \/ EmptyMemberList(cfg))
          => /\ members = NoMap
             /\ squads = NoMap
             /\ observer = NoObserver
             /\ events = << >>
             /\ nCalls = 0
             /\ loadError \in { Null, ValidationError(cfg) })
  /\ [][ ((LacksField(cfg) \/ EmptyMemberList(cfg)) /\ loadError' # loadError)
           => loadError' = ValidationError(cfg) ]_vars
  /\ [][ ((LacksField(cfg) \/ EmptyMemberList(cfg)) /\ runs' # runs)
           => /\ pc' = "failed"
              /\ outcome' = Thrown(IF TestsCalled /\ Untested THEN ErrNoTests
                                   ELSE ValidationError(cfg)) ]_vars

\* On an engine whose configuration lacks a required field a run and a call
\* of load have both failed with the missing-field error, and the engine
\* holds nothing.
C30_Witness ==
  /\ LacksField(cfg)
  /\ pc = "failed"
  /\ outcome = Thrown(ErrMissingField)
  /\ loadError = ErrMissingField
  /\ members = NoMap
  /\ observer = NoObserver

-----------------------------------------------------------------------------
(* C31: what the context holds when a node is invoked.                     *)

\* The mapping from the names of the nodes with a result among `nodes` to the
\* context entry of the latest result of each.
ContextOf(nodes) ==
  [ n \in { nodes[k].nodeName : k \in 1..Len(nodes) } |->
      CtxEntry(nodes[CHOOSE k \in 1..Len(nodes) :
                       /\ nodes[k].nodeName = n
                       /\ \A l \in (k + 1)..Len(nodes) :
                            nodes[l].nodeName # n]) ]

\* Every call of the visit under way has returned.
VisitComplete ==
  /\ \A i \in 1..Len(turns) : turns[i].status = "done"
  /\ IsSquad(current) =>
       Len(turns) = Len(squads[current].members)

\* C31: while a node is being visited, the context every one of its member
\* calls was given maps exactly the names of the nodes visited earlier in
\* the run to the entry of their most recent result, so it holds nothing of
\* the visit under way; the context and the result sequence change only when
\* a run begins (both empty) or when every call of the visit has returned,
\* and then the visit's result is appended and the node's entry overwritten.
C31_ContextOfEarlierNodes ==
  /\ [](pc = "await" =>
          \A i \in 1..Len(turns) : turns[i].ctxSeen = ContextOf(nodeResults))
  /\ [][ (ctx' # ctx \/ nodeResults' # nodeResults) =>
           \/ ctx' = NoMap /\ nodeResults' = << >> /\ runs' # runs
           \/ ctx' = NoMap /\ nodeResults' = << >> /\ suite.state = "running"
           \/ /\ pc = "await"
              /\ VisitComplete
              /\ nodeResults' = Append(nodeResults, VisitResult(current, turns))
              /\ ctx' = ContextOf(nodeResults') ]_vars

\* A node is visited for the third time, its two earlier results differ, and
\* the call of the visit was given the second one.
C31_Witness ==
  /\ pc = "await"
  /\ Len(nodeResults) = 2
  /\ Len(turns) = 1
  /\ nodeResults[1].nodeName = current
  /\ nodeResults[2].nodeName = current
  /\ CtxEntry(nodeResults[1]) # CtxEntry(nodeResults[2])
  /\ turns[1].ctxSeen[current] = CtxEntry(nodeResults[2])

-----------------------------------------------------------------------------
(* C32: the appends of the members of a parallel squad to one bucket.      *)

\* The exchanges of the calls ts that append to bucket b, in the order in
\* which the calls completed, from the r-th completion on.
RECURSIVE PairsByCompletion(_, _, _)
PairsByCompletion(ts, b, r) ==
  IF r > Len(ts) THEN << >>
  ELSE LET t == CHOOSE t \in Range(ts) : t.rank = r
       IN  (IF t.memoryId = b THEN Exchange(t, t.out) ELSE << >>)
           \o PairsByCompletion(ts, b, r + 1)

\* Every member call of the parallel squad being visited has returned.
ParallelComplete ==
  /\ pc = "await"
  /\ IsParallel(current)
  /\ Len(turns) > 0
  /\ \A i \in 1..Len(turns) : turns[i].status = "done"

\* C32: when the member calls of a parallel squad have all returned, every
\* bucket the squad's members append to is what it was when the squad was
\* started, followed by the {user, assistant} pairs of its members, pair by
\* pair in the order in which the members completed, and by nothing else.
C32_NoLostUpdate ==
  ParallelComplete =>
    \A i \in 1..Len(turns) :
      Truthy(turns[i].memoryId) =>
        /\ turns[i].memoryId \in DOMAIN memory
        /\ memory[turns[i].memoryId] =
             turns[i].memSeen \o PairsByCompletion(turns, turns[i].memoryId, 1)

-----------------------------------------------------------------------------
(* C33: what the members of a parallel squad are given.                    *)

\* The visit of a parallel squad is under way.
InParallel == pc = "await" /\ IsParallel(current)

\* The calls of the visit under way that have completed and append to b.
DoneOn(b) ==
  { j \in 1..Len(turns) : turns[j].status = "done" /\ turns[j].memoryId = b }

\* C33: the step that starts a parallel squad begins the turn of every
\* member with the context as it is at that moment and, for a member
\* without tools, with the entries its bucket holds at that moment; what a
\* turn was begun with does not change while the squad is under way; so all
\* members are given the same context, and the entries their siblings of the
\* visit have appended meanwhile, in whatever order they completed, lie in
\* the bucket after the entries a member was given.
C33_ParallelSnapshot ==
  /\ [][ (pc = "loop" /\ InParallel') =>
           \A i \in 1..Len(turns') :
             /\ turns'[i].status = "pending"
             /\ turns'[i].ctxSeen = ctx
             /\ ~turns'[i].hasTools =>
                  turns'[i].memSeen = MemoryGet(memory, turns'[i].memoryId) ]_vars
  /\ [][ (InParallel /\ InParallel') =>
           /\ Len(turns') = Len(turns)
           /\ \A i \in 1..Len(turns) :
                /\ turns'[i].ctxSeen = turns[i].ctxSeen
                /\ turns'[i].memSeen = turns[i].memSeen ]_vars
  /\ [](InParallel =>
          \A i \in 1..Len(turns) :
            /\ \A j \in 1..Len(turns) : turns[j].ctxSeen = turns[i].ctxSeen
            /\ (~turns[i].hasTools /\ Truthy(turns[i].memoryId)) =>
                 /\ IsPrefix(turns[i].memSeen,
                             MemoryGet(memory, turns[i].memoryId))
                 /\ Len(MemoryGet(memory, turns[i].memoryId))
                      >= Len(turns[i].memSeen)
                           + 2 * Cardinality(DoneOn(turns[i].memoryId)))

\* Of a parallel squad whose members share a bucket the second member has
\* completed before the first; the first was given the entries of the bucket
\* and the context from before the squad, and the bucket has grown since.
C33_Witness ==
  /\ InParallel
  /\ Len(turns) = 2
  /\ turns[1].memoryId = turns[2].memoryId
  /\ ~turns[1].hasTools
  /\ turns[2].status = "done"
  /\ turns[2].rank = 1
  /\ Len(turns[1].memSeen) > 0
  /\ turns[1].ctxSeen # NoMap
  /\ Len(memory[turns[1].memoryId]) = Len(turns[1].memSeen) + 2

-----------------------------------------------------------------------------
(* C34: what an aborted parallel squad leaves behind.                      *)

\* A member call that its rejected run left pending takes a step: it is
\* answered or fails, or its agent loop invokes a tool or hears from one.
LeftoverActs ==
  \E j \in 1..Len(orphans) :
    \/ orphans' = RemoveAt(orphans, j)
    \/ /\ Len(orphans') = Len(orphans)
       /\ orphans'[j].callNo = orphans[j].callNo
       /\ orphans'[j].tool # orphans[j].tool

\* C34: once a member of a parallel squad has failed and the run with it,
\* every bucket the squad's members append to holds what it held when the
\* squad was started; and a member call that a failed run has left pending
\* appends to no bucket and records no event.
C34_AbortLeavesNoTrace ==
  /\ []((FailedInParallel /\ pc = "failed") =>
          \A i \in 1..Len(turns) :
            Truthy(turns[i].memoryId) =>
              MemoryGet(memory, turns[i].memoryId) = turns[i].memSeen)
  /\ [][ LeftoverActs => (memory' = memory /\ events' = events) ]_vars

-----------------------------------------------------------------------------
(* C35: the engine after a load that failed part-way.                      *)

\* The configuration passes validation and a member names a tool the
\* registry does not hold, so that load fails in its member loop.
FailsPartWay(c) ==
  /\ validateConfig(c) = Ok
  /\ \E i \in 1..Len(c.members) : ~ToolsKnown(c.members[i])

\* C35: an engine whose load fails at a member's unknown tool holds no
\* member runner, before and after any call made on it; every runOnce (and
\* every runTests that has tests to run) on it fails with the unknown-tool
\* error, and so does every call of load.
C35_FailedLoadHoldsNothing ==
  /\ [](FailsPartWay(cfg) => members = NoMap)
  /\ [][ (FailsPartWay(cfg) /\ runs' # runs) =>
           /\ pc' = "failed"
           /\ outcome' = Thrown(IF TestsCalled /\ Untested THEN ErrNoTests
                                ELSE ErrUnknownTool) ]_vars
  /\ [][ (FailsPartWay(cfg) /\ loadError' # loadError) =>
           loadError' = ErrUnknownTool ]_vars

-----------------------------------------------------------------------------
(* C36: with steps declared, transitions follow steps.                     *)

\* Some declared step leads from node n to node m.
StepBetween(n, m) ==
  \E k \in 1..Len(Steps) : Steps[k].from = n /\ Steps[k].to = m

\* The hint h names a loaded node and matches no step from node n, neither
\* by its target nor by its condition.
UnmatchedNodeHint(n, h) ==
  /\ Truthy(h)
  /\ h \in DOMAIN members \cup DOMAIN squads
  /\ ~\E k \in 1..Len(Steps) : HintMatch(Steps[k], n, h)

\* C36: with at least one step declared, whenever a visit is joined and the
\* run goes on to a node, a declared step leads from the node joined to that
\* node; when the hint of the visit names a loaded node but matches no step
\* from the node joined, the run does not go on to the node the hint names;
\* and any two consecutive node results of a run are linked by a step.
C36_TransitionsFollowSteps ==
  /\ [][ (Len(Steps) > 0 /\ pc = "await" /\ nodeResults' # nodeResults) =>
           /\ pc' \in { "loop", "exit" }
           /\ pc' = "loop" => StepBetween(current, current')
           /\ UnmatchedNodeHint(current, Last(nodeResults').next)
                => ~(pc' = "loop" /\ current' = Last(nodeResults').next) ]_vars
  /\ [](Len(Steps) > 0 =>
          \A k \in 1..Len(nodeResults) - 1 :
            StepBetween(nodeResults[k].nodeName, nodeResults[k + 1].nodeName))

\* On a graph with steps a squad visited second has emitted a hint that
\* names a loaded squad; no step from the squad matches it, and the run has
\* left the loop.
C36_Witness ==
  /\ Len(Steps) > 0
  /\ Len(nodeResults) = 2
  /\ StepBetween(nodeResults[1].nodeName, nodeResults[2].nodeName)
  /\ UnmatchedNodeHint(nodeResults[2].nodeName, nodeResults[2].next)
  /\ nodeResults[2].next \in DOMAIN squads
  /\ pc = "exit"

-----------------------------------------------------------------------------
(* C37: the input every node is given.                                     *)

\* Call i of the visit under way is one the run input goes to: the call of a
\* member node, a call of a parallel squad, the first call of a sequential
\* squad.
GivenRunInput(i) == ~IsSequential(current) \/ i = 1

\* C37: at whatever position of the graph a node is visited, the call of a
\* member node, every call of a parallel squad and the first call of a
\* sequential squad are given the input the run was started with, which no
\* step of the run changes; what the earlier nodes gave is in the context
\* the call is given and is not its input.
C37_RunInputEverywhere ==
  /\ [](pc = "await" =>
          \A i \in 1..Len(turns) :
            GivenRunInput(i) =>
              /\ turns[i].input = input
              /\ \A n \in DOMAIN turns[i].ctxSeen :
                   \E k \in 1..Len(nodeResults) : nodeResults[k].nodeName = n)
  /\ [][ input' # input => (nodeResults' = << >> /\ pc' \in { "loop", "failed" })
       ]_vars

\* The second node of a run is a parallel squad: the member node before it
\* gave a text that is not the run input, every member of the squad was
\* given the run input, and the context they were given has the member
\* node's entry.
C37_Witness ==
  /\ pc = "await"
  /\ Len(nodeResults) = 1
  /\ nodeResults[1].type = "member"
  /\ Truthy(nodeResults[1].output.content)
  /\ nodeResults[1].output.content # input
  /\ IsParallel(current)
  /\ Len(turns) >= 2
  /\ \A i \in 1..Len(turns) : turns[i].input = input
  /\ nodeResults[1].nodeName \in DOMAIN turns[1].ctxSeen

-----------------------------------------------------------------------------
(* C38: the events of a run that fails.                                    *)

\* The run under way fails in this step, inside the loop.
FailsInLoop == pc \in { "loop", "await" } /\ pc' = "failed"

\* The run and node events a run records up to a failure in the visit of
\* nodeName: its run_start, the node_start and node_end of every node with a
\* result, and the node_start of the failing node.
OpenBrackets(rid, nodes, nodeName) ==
  [ p \in 1..(2 * Len(nodes) + 2) |->
      IF p = 1 THEN << "run_start", rid, Null >>
      ELSE IF p = 2 * Len(nodes) + 2 THEN << "node_start", rid, nodeName >>
      ELSE IF p % 2 = 0 THEN << "node_start", rid, nodes[p \div 2].nodeName >>
      ELSE << "node_end", rid, nodes[p \div 2].nodeName >> ]

\* C38: the step in which a run fails inside the loop (a capability fails,
\* the node is unknown) removes no event and writes no report; with
\* observability enabled the run and node events of the run are then its
\* run_start, the brackets of the nodes visited before, and the node_start
\* of the failing node as the last of them: no node_end of the failing node
\* and no run_end.  From the failure to the next call neither a node_end nor
\* a run_end is recorded and no report is written.
C38_FailedRunEvents ==
  /\ [][ FailsInLoop =>
           /\ IsPrefix(events, events')
           /\ reports' = reports
           /\ observer.enabled =>
                Skeleton(OwnEvents(events'))
                  = OpenBrackets(runId, nodeResults, current) ]_vars
  /\ [][ (pc = "failed" /\ pc' = "failed") =>
           /\ reports' = reports
           /\ \A k \in (Len(events) + 1)..Len(events') :
                events'[k].type \notin Marks ]_vars

\* On an engine that writes the Markdown report a run has failed in the
\* visit of its second node, a squad; the list holds the bracket of the
\* first node and the squad's node_start, its last event was recorded after
\* the failure by a call the run left pending, and no report was written.
C38_Witness ==
  /\ pc = "failed"
  /\ outcome = Thrown(ErrCapability)
  /\ Flushes(observer)
  /\ Len(nodeResults) = 1
  /\ IsSquad(current)
  /\ Len(events) > 0
  /\ Len(Skeleton(OwnEvents(events))) = 4
  /\ events[Len(events)].stray
  /\ reports = << >>

-----------------------------------------------------------------------------
(* C39: the event list over consecutive runs.                              *)

\* The step starts a run, belongs to a run under way, or is taken between
\* the tests of a runTests call.
RunStep ==
  runs' # runs \/ pc \in Running \/ (suite.state = "running" /\ pc = "returned")

\* The step in which a run returns its record.
Returns == pc # "returned" /\ pc' = "returned"

\* C39: no step that starts a run or belongs to one removes or replaces an
\* event: the list before the step is a prefix of the list after it, so the
\* events of a run are still in the list during and after the runs that
\* follow; and the Markdown report written when a run returns renders the
\* whole list, the events of the earlier runs included.
C39_EventsOnlyGrow ==
  /\ [][ RunStep => IsPrefix(events, events') ]_vars
  /\ [][ (Returns /\ Flushes(observer)) =>
           /\ Len(reports') = Len(reports) + 1
           /\ Last(reports') = Len(events') ]_vars
  /\ [][ (Returns /\ ~Flushes(observer)) => reports' = reports ]_vars

\* Two runs have returned on an engine that writes the report: the events the
\* first report rendered, a member's messages among them, are the beginning
\* of the list, and the second report rendered them and the second run's.
C39_Witness ==
  /\ runs = 2
  /\ pc = "returned"
  /\ Len(reports) = 2
  /\ reports[2] = Len(events)
  /\ reports[2] > reports[1]
  /\ \E k \in 1..reports[1] :
       events[k].type = "member_message" /\ events[k].phase = "after"
  /\ \E k \in (reports[1] + 1)..reports[2] : events[k].type = "run_start"
  /\ events[1].type = "run_start"

-----------------------------------------------------------------------------
(* C40: the text of a member executed more than once.                      *)

\* The last of the executions execs in visit order: the latest node, and in
\* a squad the member latest in the squad's outputs.
LastExecution(execs) ==
  CHOOSE e \in execs :
    \A f \in execs : f[1] < e[1] \/ (f[1] = e[1] /\ f[2] <= e[2])

\* What execution e of a run gave: the output of the node, or the squad's
\* output of that member.
OutputAt(run, e) ==
  IF e[2] = 0 THEN run.nodes[e[1]].output ELSE run.nodes[e[1]].outputs[e[2]]

\* Assertion result a was evaluated against the text txt.
EvaluatedAgainst(a, txt) ==
  /\ a.actualSnippet = Snippet(txt)
  /\ a.passed <=> Includes(txt, OrElse(a.value, ""))

\* C40: in every result runTests has collected, a `contains` assertion is
\* evaluated against the text of the last execution of its target in the
\* run, in visit order, however often the target was executed; and against
\* the empty text when the target was not executed in the run.
C40_LastExecutionText ==
  \A n \in 1..Len(suite.results) :
    LET r == suite.results[n]
    IN  \A k \in 1..Len(r.assertions) :
          LET execs == Executions(r.run, r.assertions[k].target)
          IN  r.assertions[k].type = "contains"
                => IF execs = {}
                   THEN EvaluatedAgainst(r.assertions[k], "")
                   ELSE EvaluatedAgainst(
                          r.assertions[k],
                          OutputText(OutputAt(r.run, LastExecution(execs))))

\* A test's run executed a member as a node and then inside a squad, with
\* different texts; an assertion on that member holds the characters of the
\* second text; another assertion of the test targets a name that was not
\* executed.
C40_Witness ==
  \E n \in 1..Len(suite.results) :
    LET r == suite.results[n]
    IN  /\ \E k \in 1..Len(r.assertions) :
             LET execs == Executions(r.run, r.assertions[k].target)
             IN  /\ r.assertions[k].type = "contains"
                 /\ << 1, 0 >> \in execs
                 /\ \E j \in 1..2 : << 2, j >> \in execs
                 /\ r.assertions[k].actualSnippet
                      # Snippet(OutputText(r.run.nodes[1].output))
                 /\ r.assertions[k].actualSnippet
                      = Snippet(OutputText(OutputAt(r.run, LastExecution(execs))))
                 /\ r.assertions[k].actualSnippet # << >>
        /\ \E k \in 1..Len(r.assertions) :
             /\ r.assertions[k].type = "contains"
             /\ Executions(r.run, r.assertions[k].target) = {}

=============================================================================
